---- MODULE Spec2Model ----
(***************************************************************************)
(* State-machine model of the resilient processing layer of the backend:   *)
(*   - services/monitoring.py : APIMonitor, APICallTracker                 *)
(*   - services/ai.py         : AIService.generate_response, process_image *)
(*   - main_production.py     : analyze_audio_content, upload endpoint,    *)
(*                              task endpoints, lazy loaders               *)
(*   - services/postgres_db.py, services/database.py : storage services    *)
(* Python's None is the string None below; Python strings are TLA+ strings.*)
(***************************************************************************)
EXTENDS Integers, Sequences, FiniteSets, TLC

VARIABLES
    \* ---- services/monitoring.py: APIMonitor
    metrics,            \* deque(maxlen): sequence of recorded APIMetric
    service_stats,      \* per service: total_requests, total_errors
    rate_limits,        \* per service: current_count of the running window
    \* ---- services/ai.py: AIService
    groq_client,        \* AIService.groq_client: None or "client"
    blip,               \* AIService._blip_processor / _blip_model: which are set
    \* ---- main_production.py: module globals of the lazy loaders
    GROQ_API_KEY,       \* whether the key is configured
    mp_groq_client,     \* global groq_client
    groq_attempted,     \* global _groq_attempted
    whisper_model,      \* global whisper_model
    sentiment_model,    \* global sentiment_model
    transformers_attempted, \* global _transformers_attempted
    \* ---- the media / chat request being served
    pc,                 \* position of the request in its handler
    call,               \* locals of the running handler
    tracker,            \* the APICallTracker of the running tracked call
    attempts,           \* provider calls made by the running request, in order
    recorded,           \* metrics recorded while the running request was served
    result,             \* value returned by the last finished service call
    http,               \* status code of the endpoint's reply (0: none yet)
    served,             \* number of requests started
    \* ---- storage: services/postgres_db.py, services/database.py
    cls,                \* which service class the process instantiated
    connection_type,    \* self.connection_type
    initialized,        \* self.initialized
    memory_storage,     \* self.memory_storage['tasks']
    next_id,            \* self.next_id
    remote,             \* rows of the 'tasks' table of each external backend
    remote_seq,         \* last id handed out by each external backend
    probes,             \* probes run by the last initialize_connections, in order
    probe_count,        \* number of probes run since construction
    ret,                \* outcome of the last storage operation
    touched,            \* stores read or written by the last storage operation
    tasks_db,           \* main_production.py: module-level in-memory list
    ops,                \* number of storage operations performed
    \* ---- callers of the monitor: routes/monitoring.py and direct calls
    health,             \* value returned by the last get_service_health
    dashboard,          \* value returned by the last get_dashboard_data
    call_log,           \* metrics handed to record_metric by direct calls, in order
    loads,              \* load attempts made so far for each lazy singleton
    \* ---- the text functions and main_ai_enhanced.py
    text_in,            \* the text handed to a text function / said by a recording
    enhanced,           \* main_ai_enhanced.py: groq_client, whisper_model, sentiment_model
    returned,           \* the last call of a text function: arguments and value
    \* ---- services/monitoring.py: the clock and the rate windows
    clock,              \* datetime.now(), in seconds since APIMonitor was built
    reset_time          \* per service: rate_limits[service]['reset_time']

monVars   == <<metrics, service_stats, rate_limits>>
aiVars    == <<groq_client, blip>>
lazyVars  == <<GROQ_API_KEY, mp_groq_client, groq_attempted, whisper_model,
               sentiment_model, transformers_attempted>>
reqVars   == <<pc, call, tracker, attempts, recorded, result, http, served>>
storeVars == <<cls, connection_type, initialized, memory_storage, next_id,
               remote, remote_seq, probes, probe_count, ret, touched,
               tasks_db, ops>>
obsVars   == <<health, dashboard, call_log, loads>>
textVars  == <<text_in, enhanced, returned>>
rateVars  == <<clock, reset_time>>
vars      == <<monVars, aiVars, lazyVars, reqVars, storeVars, obsVars, textVars, rateVars>>

None == "None"

\* Python truthiness of an optional string
Truthy(s) == s /= None /\ s /= ""

-----------------------------------------------------------------------------
\* Bounds of the model
MaxRequests == 2        \* requests served in one behaviour
MetricsMaxLen == 3      \* capacity of the metrics deque (10000 in the source)
MaxOps == 4             \* storage operations in one behaviour
MaxCalls == 4           \* direct record_metric calls in one behaviour
GroqPerMinute == 2      \* requests_per_minute of groq (30 in the source)
OtherPerMinute == 3     \* requests_per_minute of huggingface and supabase (1000)

-----------------------------------------------------------------------------
\* services/monitoring.py

MonitoredServices == {"groq", "huggingface", "supabase"}

\* deque(maxlen=...).append: the oldest element is dropped when full
DequeAppend_DropNewest(q, x, maxlen) ==
    IF Len(q) < maxlen THEN Append(q, x) ELSE q

DequeAppend(q, x, maxlen) ==
    IF Len(q) < maxlen THEN Append(q, x) ELSE Append(Tail(q), x)

APIMetric(service, endpoint, status_code, response_time, request_size, response_size) ==
    [service |-> service, endpoint |-> endpoint, status_code |-> status_code,
     response_time |-> response_time, request_size |-> request_size,
     response_size |-> response_size]

IsErrorStatus(status_code) == status_code >= 400

\* APIMonitor._check_rate_limits: the counter restarts when the window has
\* elapsed (the clock is the environment's), then counts the call; nothing is
\* blocked.
CheckRateLimits(rl, service, elapsed) ==
    IF service \notin DOMAIN rl THEN rl
    ELSE [rl EXCEPT ![service] = (IF elapsed THEN 0 ELSE @) + 1]

\* rate_limits[service]['requests_per_minute']
RequestsPerMinute ==
    [s \in MonitoredServices |-> IF s = "groq" THEN GroqPerMinute ELSE OtherPerMinute]

\* "current_count >= requests_per_minute * 0.8": a warning is logged
ApproachingLimit(rl, service) == 10 * rl[service] >= 8 * RequestsPerMinute[service]

\* APIMonitor.record_metric
RecordedStats_FailuresUncounted(stats, m) ==
    [stats EXCEPT ![m.service] =
        [total_requests |-> @.total_requests
                              + (IF IsErrorStatus(m.status_code) THEN 0 ELSE 1),
         total_response_time |-> @.total_response_time + m.response_time,
         total_errors   |-> @.total_errors
                              + (IF IsErrorStatus(m.status_code) THEN 1 ELSE 0)]]

RecordedStats(stats, m) ==
    [stats EXCEPT ![m.service] =
        [total_requests |-> @.total_requests + 1,
         total_response_time |-> @.total_response_time + m.response_time,
         total_errors   |-> @.total_errors
                              + (IF IsErrorStatus(m.status_code) THEN 1 ELSE 0)]]

RecordMetric_Blocking(m, elapsed) ==
    IF ~elapsed /\ rate_limits[m.service] >= RequestsPerMinute[m.service]
    THEN UNCHANGED monVars
    ELSE /\ metrics' = DequeAppend(metrics, m, MetricsMaxLen)
         /\ service_stats' = RecordedStats(service_stats, m)
         /\ rate_limits' = CheckRateLimits(rate_limits, m.service, elapsed)

RecordMetric(m, elapsed) ==
    /\ metrics' = DequeAppend(metrics, m, MetricsMaxLen)
    /\ service_stats' = RecordedStats(service_stats, m)
    /\ rate_limits' = CheckRateLimits(rate_limits, m.service, elapsed)

\* APICallTracker.__init__ / set_status / __aexit__
NewTracker(service, endpoint) ==
    [service |-> service, endpoint |-> endpoint, status_code |-> 200]

SetStatus(t, status_code) == [t EXCEPT !.status_code = status_code]

\* time.time() - self.start_time of a tracked call, in seconds
TrackedSeconds == 1

\* The sizes are the tracker's defaults; set_request_size and
\* set_response_size are not followed.
TrackerMetric(t, raised) ==
    APIMetric(t.service, t.endpoint, IF raised THEN 500 ELSE t.status_code,
              TrackedSeconds, 0, 0)

\* timedelta(minutes=1), in seconds
Minute == 60

\* rate_limits[service]['reset_time'] after _check_rate_limits at time t
NextResetTime(rt, service, t) ==
    IF service \notin DOMAIN rt THEN rt
    ELSE [rt EXCEPT ![service] = IF t >= @ THEN t + Minute ELSE @]

\* APIMonitor.__init__: every 'reset_time' is datetime.now()
InitRateIdle ==
    /\ clock = 0
    /\ reset_time = [s \in MonitoredServices |-> 0]

InitMonitor ==
    /\ metrics = <<>>
    /\ service_stats = [s \in MonitoredServices |->
                          [total_requests |-> 0, total_response_time |-> 0,
                           total_errors |-> 0]]
    /\ rate_limits = [s \in MonitoredServices |-> 0]

\* APIMonitor.get_service_health. The rates are kept as the integers they are
\* computed from: success_rate is successes / total_requests and
\* avg_response_time is total_response_time / total_requests, so
\*   success_rate < 0.95      iff  100 * successes < 95 * total_requests
\*   success_rate < 0.5       iff  2 * successes < total_requests
\*   avg_response_time > 30   iff  total_response_time > 30 * total_requests
HealthStatus(successes, total, total_time) ==
    IF 2 * successes < total \/ total_time > 30 * total THEN "down"
    ELSE IF 100 * successes < 95 * total THEN "degraded"
    ELSE "healthy"

ServiceHealth(service, status, successes, total, total_time, errors) ==
    [service |-> service, status |-> status, successes |-> successes,
     total_requests |-> total, total_response_time |-> total_time,
     error_count |-> errors]

GetServiceHealth_NoUnknown(stats, service) ==
    LET st == stats[service]
        ok == st.total_requests - st.total_errors IN
    ServiceHealth(service, HealthStatus(ok, st.total_requests, st.total_response_time),
                  ok, st.total_requests, st.total_response_time, st.total_errors)

GetServiceHealth(stats, service) ==
    LET st == stats[service]
        ok == st.total_requests - st.total_errors IN
    IF st.total_requests = 0
    THEN ServiceHealth(service, "unknown", 0, 0, 0, 0)
    ELSE ServiceHealth(service,
                       HealthStatus(ok, st.total_requests, st.total_response_time),
                       ok, st.total_requests, st.total_response_time, st.total_errors)

NoHealth == ServiceHealth("none", "none", 0, 0, 0, 0)

\* APIMonitor.get_dashboard_data: 'services' holds the health of each of
\* ['groq', 'huggingface', 'supabase'], and 'overall_health' follows from
\* the number of them whose status is not 'healthy'. The sums are over the
\* three services, in the order of the list.
OverallHealth_UnknownIsFine(services) ==
    LET unhealthy_services ==
            Cardinality({s \in DOMAIN services :
                           services[s].status \notin {"healthy", "unknown"}}) IN
    IF unhealthy_services >= 2 THEN "down"
    ELSE IF unhealthy_services = 1 THEN "degraded"
    ELSE "healthy"

OverallHealth(services) ==
    LET unhealthy_services ==
            Cardinality({s \in DOMAIN services : services[s].status /= "healthy"}) IN
    IF unhealthy_services >= 2 THEN "down"
    ELSE IF unhealthy_services = 1 THEN "degraded"
    ELSE "healthy"

GetDashboardData(stats) ==
    LET services == [s \in MonitoredServices |-> GetServiceHealth(stats, s)] IN
        [services |-> services,
         overall_health |-> OverallHealth(services),
         total_requests |-> stats["groq"].total_requests
                              + stats["huggingface"].total_requests
                              + stats["supabase"].total_requests,
         total_errors |-> stats["groq"].total_errors
                              + stats["huggingface"].total_errors
                              + stats["supabase"].total_errors]

NoDashboard == [overall_health |-> "none"]

\* The lazily loaded singletons: the Groq client and the Transformers
\* pipelines of main_production.py, the BLIP model of AIService
Singletons == {"groq", "transformers", "blip"}

InitObsIdle ==
    /\ health = NoHealth
    /\ dashboard = NoDashboard
    /\ call_log = <<>>
    /\ loads = [k \in Singletons |-> 0]

\* The metrics callers hand to record_metric: calls that succeeded or failed,
\* fast or slower than 30 s, and one whose latency and sizes are negative.
MetricInputs ==
    { APIMetric("groq", "chat/completions", 200, 1, 0, 0),
      APIMetric("groq", "chat/completions", 500, 1, 0, 0),
      APIMetric("groq", "chat/completions", 200, 40, 0, 0),
      APIMetric("groq", "chat/completions", 200, -5, -1, -1),
      APIMetric("huggingface", "image_processing", 200, 1, 0, 0),
      APIMetric("supabase", "tasks", 200, 1, 0, 0) }

\* api_monitor.record_metric(metric), called directly
RecordMetricCall ==
    /\ Len(call_log) < MaxCalls
    /\ \E m \in MetricInputs, elapsed \in BOOLEAN :
         /\ RecordMetric(m, elapsed)
         /\ call_log' = Append(call_log, m)
    /\ health' = NoHealth
    /\ dashboard' = NoDashboard
    /\ UNCHANGED <<loads, aiVars, lazyVars, reqVars, storeVars, textVars, rateVars>>

\* routes/monitoring.py: GET /service/{service_name}
ServiceHealthRoute ==
    /\ \E service \in MonitoredServices :
         health' = GetServiceHealth(service_stats, service)
    /\ UNCHANGED <<dashboard, call_log, loads, monVars, aiVars, lazyVars, reqVars, storeVars, textVars, rateVars>>

\* routes/monitoring.py: GET /health; the reply's "health" and "services"
\* are the dashboard's 'overall_health' and 'services'
SystemHealthRoute ==
    /\ dashboard' = GetDashboardData(service_stats)
    /\ UNCHANGED <<health, call_log, loads, monVars, aiVars, lazyVars, reqVars, storeVars, textVars, rateVars>>

-----------------------------------------------------------------------------
\* services/ai.py: AIService.generate_response

PlaceholderPrefix == "[PLACEHOLDER MODE] You said: "
PlaceholderSuffix == " I'm IntelliAssist.AI, ready to help with your tasks!"
ApiErrorText == "I'm experiencing some technical difficulties connecting to my AI systems."
GeneralErrorText == "I apologize, but I'm experiencing technical difficulties."

\* What the Groq completion call can do: raise, or return a completion whose
\* message content is None, empty or a text.
ChatOutcomes ==
    {[raises |-> TRUE, content |-> None]} \cup
    {[raises |-> FALSE, content |-> c] : c \in {None, "", "1. Call dentist"}}

Prompts == {None, "", "need to buy milk"}

\* The value generate_response returns and the status its tracker ends with.
\*   prompt None: len(prompt) raises inside the outer try   -> "error", 500
\*   no client                                              -> "placeholder", 503
\*   the call raises, or content None (.encode raises)      -> "api_error", 500
\*   otherwise                                              -> "success", 200
GenerateResponse(prompt, client, outcome) ==
    IF prompt = None
    THEN [response |-> GeneralErrorText, status |-> "error", code |-> 500]
    ELSE IF client = None
    THEN [response |-> PlaceholderPrefix \o prompt \o PlaceholderSuffix,
          status |-> "placeholder", code |-> 503]
    ELSE IF outcome.raises \/ outcome.content = None
    THEN [response |-> ApiErrorText, status |-> "api_error", code |-> 500]
    ELSE [response |-> outcome.content, status |-> "success", code |-> 200]

GroqMetric(gen) ==
    TrackerMetric(SetStatus(NewTracker("groq", "chat/completions"), gen.code), FALSE)

NoCall == [kind |-> "none", exists |-> FALSE, file_path |-> FALSE,
           transcription |-> None, ai_processed |-> FALSE, provider |-> "none",
           prompt |-> None]
NoTracker == [service |-> "none", endpoint |-> "none", status_code |-> 0]
NoResult == [op |-> "none", status |-> "none", provider |-> "none", text |-> None]

\* A chat request: the whole of generate_response, its metric included.
ChatRequest ==
    /\ pc = "idle"
    /\ served < MaxRequests
    /\ \E prompt \in Prompts, outcome \in ChatOutcomes, elapsed \in BOOLEAN :
         LET gen == GenerateResponse(prompt, groq_client, outcome) IN
         /\ RecordMetric(GroqMetric(gen), elapsed)
         /\ recorded' = <<GroqMetric(gen)>>
         /\ attempts' = IF prompt /= None /\ groq_client /= None
                        THEN <<[provider |-> "groq_chat",
                                outcome |-> IF outcome.raises THEN "raise" ELSE "ok"]>>
                        ELSE <<>>
         /\ result' = [op |-> "generate_response", status |-> gen.status,
                       provider |-> "groq_chat", text |-> gen.response]
         /\ call' = [NoCall EXCEPT !.kind = "chat", !.prompt = prompt]
    /\ http' = 200
    /\ served' = served + 1
    /\ UNCHANGED <<pc, tracker, aiVars, lazyVars, storeVars, obsVars, textVars, rateVars>>

-----------------------------------------------------------------------------
\* services/ai.py: AIService.process_image, reached from the upload endpoint
\* of main_production.py

\* _process_image_with_hf_api is called by process_image; its result is the
\* environment's: a result with status "success", one with another status, or
\* an exception (the call site handles the three).
HFOutcomes == {"success", "error", "raise"}

\* _process_image_locally: a missing dependency, a failed model load, an
\* unreadable image and an empty caption all raise; a caption succeeds.
LocalOutcomes == {"import_error", "load_error", "image_error", "empty_caption", "caption",
                  "model_missing"}

\* What the steps of _process_image_locally other than the model load do
ProcessingOutcomes == {"import_error", "image_error", "empty_caption", "caption"}

\* The load of the BLIP processor and model: both load, the processor's
\* from_pretrained raises, or the model's raises after self._blip_processor
\* was assigned.
BlipLoadOutcomes == {"ok", "processor_fails", "model_fails"}

\* "if not hasattr(self, '_blip_processor')": the attributes afterwards,
\* whether a load was attempted, whether it raised
BlipLoad(b, load) ==
    IF b = "none"
    THEN [blip |-> IF load = "ok" THEN "loaded"
                   ELSE IF load = "model_fails" THEN "processor" ELSE "none",
          attempted |-> TRUE, failed |-> load /= "ok"]
    ELSE [blip |-> b, attempted |-> FALSE, failed |-> FALSE]

\* How _process_image_locally ends: the imports, then the load, then the
\* image is opened, then the processor and the model are used (a missing
\* self._blip_model raises there).
LocalOutcome(o, b, load) ==
    IF o = "import_error" THEN o
    ELSE IF BlipLoad(b, load).failed THEN "load_error"
    ELSE IF o = "image_error" THEN o
    ELSE IF BlipLoad(b, load).blip /= "loaded" THEN "model_missing"
    ELSE o

LocalSucceeds(o) == o = "caption"

\* safe_fallback_response("image", ...) delegates to
\* ai_service._generate_fallback_response, which the endpoint calls on the
\* AIService instance: it returns an analysis or raises.
FallbackOutcomes == {"analysis", "raise"}

Attempt(provider, outcome) == [provider |-> provider, outcome |-> outcome]

\* upload_file_endpoint, image branch, up to the first step of process_image:
\* the tracker is created and the file is looked up.
UploadImageStart ==
    /\ pc = "idle"
    /\ served < MaxRequests
    /\ served' = served + 1
    /\ \E exists \in BOOLEAN :
         /\ call' = [NoCall EXCEPT !.kind = "image", !.exists = exists]
         /\ IF exists
            THEN /\ pc' = "img_hf"
                 /\ result' = NoResult
            ELSE /\ pc' = "img_exit"
                 /\ result' = [op |-> "process_image", status |-> "error",
                               provider |-> "none", text |-> None]
    /\ tracker' = NewTracker("huggingface", "image_processing")
    /\ attempts' = <<>>
    /\ recorded' = <<>>
    /\ http' = 0
    /\ UNCHANGED <<monVars, aiVars, lazyVars, storeVars, obsVars, textVars, rateVars>>

\* process_image: the Hugging Face attempt
ImageHF ==
    /\ pc = "img_hf"
    /\ \E o \in HFOutcomes :
         /\ attempts' = Append(attempts, Attempt("huggingface", o))
         /\ IF o = "success"
            THEN /\ tracker' = SetStatus(tracker, 200)
                 /\ result' = [op |-> "process_image", status |-> "success",
                               provider |-> "huggingface", text |-> "caption"]
                 /\ pc' = "img_exit"
            ELSE /\ pc' = "img_local"
                 /\ UNCHANGED <<tracker, result>>
    /\ UNCHANGED <<call, recorded, http, served, monVars, aiVars, lazyVars, storeVars, obsVars, textVars, rateVars>>

\* The result and tracker status process_image ends with after the local
\* attempt: the local result with status 200, or, when the local attempt
\* raised, the outer handler's error result with status 500.
ImageLocalResult_Swapped(o) ==
    IF LocalSucceeds(o)
    THEN [status |-> "success", code |-> 500]
    ELSE [status |-> "error", code |-> 200]

ImageLocalResult(o) ==
    IF LocalSucceeds(o)
    THEN [status |-> "success", code |-> 200]
    ELSE [status |-> "error", code |-> 500]

\* process_image: the local BLIP attempt; a caption is passed to
\* generate_response, which records its own groq metric.
ImageLocal ==
    /\ pc = "img_local"
    /\ \E step \in ProcessingOutcomes, load \in BlipLoadOutcomes,
          outcome \in ChatOutcomes, elapsed \in BOOLEAN :
         LET o   == LocalOutcome(step, blip, load)
             l   == BlipLoad(blip, load)
             gen == GenerateResponse("Image Analysis", groq_client, outcome)
             fin == ImageLocalResult(o) IN
         /\ blip' = IF step = "import_error" THEN blip ELSE l.blip
         /\ loads' = [loads EXCEPT !["blip"] =
                         @ + (IF step /= "import_error" /\ l.attempted THEN 1 ELSE 0)]
         /\ attempts' = Append(attempts, Attempt("local_blip", o))
         /\ IF LocalSucceeds(o)
            THEN /\ RecordMetric(GroqMetric(gen), elapsed)
                 /\ recorded' = Append(recorded, GroqMetric(gen))
            ELSE UNCHANGED <<monVars, recorded>>
         /\ tracker' = SetStatus(tracker, fin.code)
         /\ result' = [op |-> "process_image", status |-> fin.status,
                       provider |-> IF LocalSucceeds(o) THEN "local_blip" ELSE "none",
                       text |-> IF LocalSucceeds(o) THEN "caption" ELSE None]
    /\ pc' = "img_exit"
    /\ UNCHANGED <<call, http, served, groq_client, lazyVars, storeVars, health, dashboard, call_log, textVars, rateVars>>

\* APICallTracker.__aexit__ of process_image: the one huggingface metric
ImageExit ==
    /\ pc = "img_exit"
    /\ \E elapsed \in BOOLEAN :
         RecordMetric(TrackerMetric(tracker, FALSE), elapsed)
    /\ recorded' = Append(recorded, TrackerMetric(tracker, FALSE))
    /\ pc' = "img_return"
    /\ UNCHANGED <<call, tracker, attempts, result, http, served, aiVars, lazyVars, storeVars, obsVars, textVars, rateVars>>

\* The reply of upload_file_endpoint for what process_image returned: a
\* "success" result is used; otherwise, and again in the handler of the inner
\* try, safe_fallback_response is called, and an exception escaping it reaches
\* the endpoint's outer handler, which answers 500.
UploadReply(status, fallback) ==
    IF status = "success" THEN 200
    ELSE IF fallback = "analysis" THEN 200
    ELSE 500

UploadImageFinish ==
    /\ pc = "img_return"
    /\ \E fb \in FallbackOutcomes : http' = UploadReply(result.status, fb)
    /\ pc' = "idle"
    /\ UNCHANGED <<call, tracker, attempts, recorded, result, served, monVars, aiVars, lazyVars, storeVars, obsVars, textVars, rateVars>>

-----------------------------------------------------------------------------
\* Text handling: extract_tasks_from_text (main_ai_enhanced.py and
\* main_production.py) and AIService._extract_tasks_from_response.
\* A text is a sequence of atoms: a word or a phrase, a blank, a line break,
\* a punctuation mark. The regular expressions of the source are evaluated
\* atom by atom: a keyword that opens a pattern matches a whole atom (no atom
\* of the texts below holds such a keyword inside), and the substring tests
\* ("word in match") hold for an atom equal to the word or holding it.

ManyTimes == 11         \* lines or sentences of the longest texts
MaxTextLen == 3         \* atoms of a text drawn atom by atom

\* the atoms matched by \s
Spaces == {" ", "\n", "\t"}

\* atoms of more than one character, in lower case, with their length
AtomChars ==
    ("need to" :> 7) @@ ("buy milk" :> 8) @@ ("call" :> 4) @@ ("urgent" :> 6) @@
    ("1." :> 2) @@ ("2." :> 2) @@ ("the client" :> 10) @@ ("asap" :> 4) @@
    ("dentist" :> 7) @@ ("finish report" :> 13) @@ ("later" :> 5) @@
    ("task" :> 4) @@ ("task:" :> 5) @@ ("plan" :> 4) @@ ("done" :> 4) @@
    ("review" :> 6) @@ ("the budget" :> 10) @@ ("it" :> 2) @@ ("..." :> 3) @@
    ("Extracted from: " :> 16) @@ ("List item from: " :> 16)

\* str.capitalize() of the atoms that begin with a letter
Capital ==
    ("need to" :> "Need to") @@ ("buy milk" :> "Buy milk") @@ ("call" :> "Call") @@
    ("urgent" :> "Urgent") @@ ("the client" :> "The client") @@ ("asap" :> "Asap") @@
    ("dentist" :> "Dentist") @@ ("finish report" :> "Finish report") @@
    ("later" :> "Later") @@ ("task" :> "Task") @@ ("task:" :> "Task:") @@
    ("plan" :> "Plan") @@ ("done" :> "Done") @@
    ("review" :> "Review") @@ ("the budget" :> "The budget") @@ ("it" :> "It") @@
    ("meeting" :> "Meeting")

\* F(v): the value v under the name F gives it
With(v, F(_)) == CHOOSE r \in {F(x) : x \in {v}} : TRUE

\* str.lower()
LowerText(t) ==
    With(Capital, LAMBDA upper :
        [j \in 1..Len(t) |->
            IF \E l \in DOMAIN upper : upper[l] = t[j]
            THEN CHOOSE l \in DOMAIN upper : upper[l] = t[j]
            ELSE t[j]])

\* str.capitalize(): first character in upper case, the rest in lower case
Capitalize(t) ==
    With(<<LowerText(t), Capital>>, LAMBDA a :
        [j \in 1..Len(t) |->
            IF j = 1 /\ a[1][j] \in DOMAIN a[2] THEN a[2][a[1][j]] ELSE a[1][j]])

\* len(text): the characters of the two halves of the text, added
RECURSIVE TextLen(_)
TextLen(t) ==
    IF t = <<>> THEN 0
    ELSE IF Len(t) = 1
    THEN With(<<LowerText(t)[1], AtomChars>>, LAMBDA a :
             IF a[1] \in DOMAIN a[2] THEN a[2][a[1]] ELSE 1)
    ELSE TextLen(SubSeq(t, 1, Len(t) \div 2)) + TextLen(SubSeq(t, Len(t) \div 2 + 1, Len(t)))

\* text[:n], cut at the last atom that fits
TakeChars(t, n) ==
    With({k \in 0..Len(t) : TextLen(SubSeq(t, 1, k)) <= n}, LAMBDA fits :
        IF fits = {} THEN <<>>
        ELSE SubSeq(t, 1, CHOOSE k \in fits : \A j \in fits : j <= k))

Least(S) == CHOOSE x \in S : \A y \in S : x <= y

\* str.strip()
Strip(t) ==
    LET kept == {j \in 1..Len(t) : t[j] \notin Spaces}
    IN IF kept = {} THEN <<>>
       ELSE SubSeq(t, Least(kept), CHOOSE x \in kept : \A y \in kept : y <= x)

\* any(word in t for word in words)
Mentions(t, words) ==
    LET inside == {<<"task", "task:">>, <<"plan", "plan to">>, <<"action", "action item">>,
                   <<"dramatic", "dramatic reading">>, <<"reading", "dramatic reading">>,
                   <<"finish", "finish report">>, <<"call", "conference call">>}
    IN \E j \in 1..Len(t) : \E word \in words : word = t[j] \/ <<word, t[j]>> \in inside

\* a text with every atom that ends in a full stop ("1.") cut in two, so that
\* the stop is an atom of its own for [.!?]
RECURSIVE Undot(_)
Undot(t) ==
    IF t = <<>> THEN <<>>
    ELSE IF Len(t) = 1
    THEN CASE t[1] = "1." -> <<"1", ".">>
           [] t[1] = "2." -> <<"2", ".">>
           [] t[1] = "3." -> <<"3", ".">>
           [] OTHER -> t
    ELSE Undot(SubSeq(t, 1, Len(t) \div 2)) \o Undot(SubSeq(t, Len(t) \div 2 + 1, Len(t)))

\* number of consecutive atoms of the given kind from index i on
RECURSIVE Run(_, _, _)
Run(t, i, atoms) == IF i > Len(t) \/ t[i] \notin atoms THEN 0 ELSE 1 + Run(t, i + 1, atoms)

\* the group begun at s, "." matching every atom but a line break: index of
\* the last atom of the shortest group, 0 when the group cannot be closed.
\* (.+?)(?:[.!?]|$) closes before a terminator, at the end of the text or
\* before its final line break; (.+?)(?:\n|$) with re.MULTILINE closes at the
\* end of the line.
GroupEnd(t, s, multiline) ==
    LET closes(k) == IF multiline THEN k = Len(t) + 1 \/ t[k] = "\n"
                     ELSE \/ k = Len(t) + 1
                          \/ (k = Len(t) /\ t[k] = "\n")
                          \/ t[k] \in {".", "!", "?"}
        ends == {e \in s..Len(t) : (\A j \in s..e : t[j] /= "\n") /\ closes(e + 1)}
    IN IF ends = {} THEN 0 ELSE Least(ends)

\* "\s+" after the atom at i, or "\s+(?:on|with)?\s*" when optional words are
\* given: where the group may begin, the longest runs first
StartsAfter(t, i, words) ==
    With(Run(t, i + 1, Spaces), LAMBDA w :
        LET a == i + 1 + w
            plain == [k \in 1..w |-> i + 2 + w - k]
        IN IF w > 0 /\ a <= Len(t) /\ t[a] \in words
           THEN With(Run(t, a + 1, Spaces), LAMBDA v : [k \in 1..(v + 1) |-> a + 2 + v - k])
                \o plain
           ELSE plain)

\* task_patterns: the keywords that open each pattern, and the optional word
\* of the fourth
TaskPatterns ==
    << [keywords |-> {"need to", "have to", "must", "should", "todo", "task", "task:"},
        optional |-> {}, numbered |-> FALSE],
       [keywords |-> {"remember to", "don't forget to"}, optional |-> {}, numbered |-> FALSE],
       [keywords |-> {"action item", "action item:", "ai", "ai:"}, optional |-> {},
        numbered |-> FALSE],
       [keywords |-> {"follow up", "followup"}, optional |-> {"on", "with"},
        numbered |-> FALSE],
       [keywords |-> {"schedule", "set up", "arrange"}, optional |-> {}, numbered |-> FALSE],
       [keywords |-> {"call", "email", "contact"}, optional |-> {}, numbered |-> FALSE],
       [keywords |-> {"review", "check", "verify", "confirm"}, optional |-> {},
        numbered |-> FALSE],
       [keywords |-> {"create", "make", "build", "develop"}, optional |-> {},
        numbered |-> FALSE],
       [keywords |-> {"send", "submit", "deliver"}, optional |-> {}, numbered |-> FALSE],
       [keywords |-> {"update", "modify", "change"}, optional |-> {}, numbered |-> FALSE] >>

\* numbered_pattern: (?:^|\n)\s*(?:\d+\.|\d+\)|\*|-)\s+(.+?)(?:\n|$)
NumberedPattern ==
    [keywords |-> {"1.", "2.", "3.", "1)", "2)", "3)", "*", "-"}, optional |-> {},
     numbered |-> TRUE]

\* one pattern tried at index i of t: the group t[s..e] and the index at which
\* the search goes on. A pattern of task_patterns opens with its keyword at i;
\* numbered_pattern opens at the start of a line or on a line break, and
\* passes the white space before the bullet.
MatchAt(p, t, i) ==
    With(IF p.numbered THEN i + Run(t, i, Spaces) ELSE i, LAMBDA k :
    With(StartsAfter(t, k, p.optional), LAMBDA starts :
    With([n \in 1..Len(starts) |-> GroupEnd(t, starts[n], p.numbered)], LAMBDA ends :
        LET opens == /\ k <= Len(t) /\ t[k] \in p.keywords
                     /\ p.numbered => (i = 1 \/ t[i - 1] = "\n" \/ t[i] = "\n")
            good == {n \in 1..Len(starts) : ends[n] /= 0}
            s == starts[Least(good)]
            e == ends[Least(good)]
            consumed == IF p.numbered THEN e < Len(t)
                        ELSE e < Len(t) /\ t[e + 1] \in {".", "!", "?"}
        IN IF ~opens \/ good = {} THEN [ok |-> FALSE, s |-> 0, e |-> 0, next |-> 0]
           ELSE [ok |-> TRUE, s |-> s, e |-> e, next |-> IF consumed THEN e + 2 ELSE e + 1])))

\* re.findall(pattern, t): the groups of the matches, left to right, none
\* overlapping
RECURSIVE FindAll(_, _, _)
FindAll(p, t, i) ==
    With({j \in i..Len(t) : MatchAt(p, t, j).ok}, LAMBDA hits :
        IF hits = {} THEN <<>>
        ELSE With(MatchAt(p, t, Least(hits)), LAMBDA m :
                 <<SubSeq(t, m.s, m.e)>> \o FindAll(p, t, m.next)))

\* priority and category of a match, by the keywords it contains
Priority(match) ==
    IF Mentions(match, {"urgent", "asap", "immediately", "critical"}) THEN "high"
    ELSE IF Mentions(match, {"later", "eventually", "when possible"}) THEN "low"
    ELSE "medium"

Category(match) ==
    IF Mentions(match, {"meeting", "call", "discuss"}) THEN "meetings"
    ELSE IF Mentions(match, {"email", "send", "contact"}) THEN "communication"
    ELSE IF Mentions(match, {"review", "check", "verify"}) THEN "review"
    ELSE IF Mentions(match, {"create", "build", "develop"}) THEN "development"
    ELSE "general"

\* "for pattern in task_patterns", from the k-th pattern on: a match is kept
\* when, stripped, it has more than three characters
RECURSIVE PatternTasks(_, _)
PatternTasks(text, k) ==
    IF k > Len(TaskPatterns) THEN <<>>
    ELSE With(SelectSeq(FindAll(TaskPatterns[k], Undot(LowerText(text)), 1),
                        LAMBDA match : TextLen(Strip(match)) > 3), LAMBDA kept :
             LET description == IF TextLen(text) > 100
                                THEN <<"Extracted from: ">> \o TakeChars(text, 100) \o <<"...">>
                                ELSE <<"Extracted from: ">> \o text
             IN [n \in 1..Len(kept) |->
                    [title |-> Capitalize(Strip(kept[n])), description |-> description,
                     priority |-> Priority(kept[n]), category |-> Category(kept[n]),
                     status |-> "pending"]])
         \o PatternTasks(text, k + 1)

\* "for match in numbered_matches": an item is added unless it is short or
\* its text is, ignoring case, the title of a task already in the list
RECURSIVE AddListItems(_, _, _)
AddListItems(tasks, matches, text) ==
    IF matches = <<>> THEN tasks
    ELSE With(Strip(Head(matches)), LAMBDA match :
             LET known == \E k \in 1..Len(tasks) :
                              Undot(LowerText(tasks[k].title)) = Undot(LowerText(match))
                 item == [title |-> Capitalize(match),
                          description |-> <<"List item from: ">> \o TakeChars(text, 50)
                                          \o <<"...">>,
                          priority |-> "medium", category |-> "general", status |-> "pending"]
             IN AddListItems(IF TextLen(match) > 3 /\ ~known
                             THEN Append(tasks, item) ELSE tasks,
                             Tail(matches), text))

\* main_ai_enhanced.py: ten tasks at most
extract_tasks_from_text_NeverEmpty(text) ==
    With(AddListItems(PatternTasks(text, 1), FindAll(NumberedPattern, text, 1), text),
         LAMBDA tasks :
             IF tasks = <<>>
             THEN <<[title |-> <<"Review">>, description |-> text, priority |-> "medium",
                     category |-> "general", status |-> "pending"]>>
             ELSE SubSeq(tasks, 1, IF Len(tasks) < 10 THEN Len(tasks) ELSE 10))

extract_tasks_from_text(text) ==
    IF text = <<>> THEN <<>>
    ELSE With(AddListItems(PatternTasks(text, 1), FindAll(NumberedPattern, text, 1), text),
              LAMBDA tasks : SubSeq(tasks, 1, IF Len(tasks) < 10 THEN Len(tasks) ELSE 10))

\* main_production.py: the same patterns, no list items, five tasks at most
mp_extract_tasks_from_text(text) ==
    IF text = <<>> THEN <<>>
    ELSE With(PatternTasks(text, 1),
              LAMBDA tasks : SubSeq(tasks, 1, IF Len(tasks) < 5 THEN Len(tasks) ELSE 5))

\* services/ai.py: AIService._extract_tasks_from_response

\* response_text.split('\n')
RECURSIVE SplitLines(_)
SplitLines(t) ==
    IF \A j \in 1..Len(t) : t[j] /= "\n" THEN <<t>>
    ELSE LET k == Least({j \in 1..Len(t) : t[j] = "\n"})
         IN <<SubSeq(t, 1, k - 1)>> \o SplitLines(SubSeq(t, k + 1, Len(t)))

\* the four task_patterns tried on a stripped line: the group of the n-th,
\* <<>> when it does not match
LineGroup(n, line) ==
    LET head == LowerText(line)[1]
        rest == SubSeq(line, 2, Len(line))
        \* "[:\s]+(.+)" from index q, with at least so many separators: where
        \* the group begins, 0 when the pattern fails
        after(q, least) ==
            LET r == Run(line, q, Spaces \cup {":"})
            IN IF r >= least /\ q + r <= Len(line) THEN q + r
               ELSE IF r >= least + 1 /\ q + r - 1 = Len(line) THEN Len(line)
               ELSE 0
    IN CASE n = 1 ->      \* ^\d+\.\s*(.+)
              IF head \in {"1.", "2.", "3."} THEN Strip(rest) ELSE <<>>
         [] n = 2 ->      \* ^[-*(bullet)]\s*(.+)
              IF head \in {"-", "*", "(bullet)"} THEN Strip(rest) ELSE <<>>
         [] n = 3 ->      \* ^(?:task|step|action)(?:\s*\d+)?[:\s]+(.+)
              LET w == Run(line, 2, Spaces)
                  numbered == 2 + w <= Len(line) /\ line[2 + w] \in {"1", "2", "3"}
                  s == IF head \in {"task:", "step:", "action:"} THEN after(2, 0)
                       ELSE IF head \notin {"task", "step", "action"} THEN 0
                       ELSE IF numbered /\ after(3 + w, 1) /= 0 THEN after(3 + w, 1)
                       ELSE after(2, 1)
              IN IF s = 0 THEN <<>> ELSE SubSeq(line, s, Len(line))
         [] n = 4 ->      \* (?:you should|need to|plan to|will)\s+(.+)
              LET at == {i \in 1..Len(line) :
                           /\ LowerText(line)[i] \in {"you should", "need to", "plan to", "will"}
                           /\ Run(line, i + 1, Spaces) >= 1
                           /\ i + 1 + Run(line, i + 1, Spaces) <= Len(line)}
              IN IF at = {} THEN <<>>
                 ELSE SubSeq(line, Least(at) + 1 + Run(line, Least(at) + 1, Spaces), Len(line))

\* the task dictionary of a line's task_text
ResponseTask(task_text) ==
    LET lower == LowerText(task_text)
    IN [title |-> TakeChars(task_text, 100), summary |-> task_text, status |-> "pending",
        priority |->
            IF Mentions(lower, {"urgent", "asap", "critical", "important"}) THEN "high"
            ELSE IF Mentions(lower, {"later", "eventually", "when possible"}) THEN "low"
            ELSE "medium",
        category |->
            IF Mentions(lower, {"meeting", "call", "email", "contact"}) THEN "communication"
            ELSE IF Mentions(lower, {"research", "analyze", "study", "learn"}) THEN "research"
            ELSE IF Mentions(lower, {"create", "build", "develop", "design"}) THEN "development"
            ELSE IF Mentions(lower, {"plan", "organize", "schedule"}) THEN "planning"
            ELSE "general"]

\* "for pattern in task_patterns" on one stripped, non-empty line, from the
\* n-th pattern on: the first pattern whose group is long enough gives the
\* line's task
RECURSIVE LineTask(_, _)
LineTask(line, n) ==
    IF n > 4 THEN <<>>
    ELSE LET task_text == Strip(LineGroup(n, line))
         IN IF LineGroup(n, line) = <<>> THEN LineTask(line, n + 1)
            ELSE IF \/ TextLen(task_text) < 10
                    \/ LowerText(task_text) \in {<<"continue">>, <<"next">>, <<"done">>}
                 THEN LineTask(line, n + 1)
            ELSE <<ResponseTask(task_text)>>

\* "for line in lines"
RECURSIVE LinesTasks(_)
LinesTasks(lines) ==
    IF lines = <<>> THEN <<>>
    ELSE (IF Strip(Head(lines)) = <<>> THEN <<>> ELSE LineTask(Strip(Head(lines)), 1))
         \o LinesTasks(Tail(lines))

\* the general task made when the response names a task and no line gave one;
\* a final '.' of the summary is cut
GeneralTask(response_text) ==
    LET summary == Strip(TakeChars(response_text, 200))
        last == summary[Len(summary)]
        front == SubSeq(summary, 1, Len(summary) - 1)
        cut == IF summary = <<>> THEN summary
               ELSE IF last = "." THEN front
               ELSE IF last = "1." THEN Append(front, "1")
               ELSE IF last = "2." THEN Append(front, "2")
               ELSE IF last = "..." THEN Append(front, "..")
               ELSE summary
    IN [title |-> <<"Follow AI recommendations">>, summary |-> cut \o <<"...">>,
        status |-> "pending", priority |-> "medium", category |-> "ai-generated"]

\* "any(indicator in response_lower for indicator in task_indicators)"
has_tasks(response_text) ==
    Mentions(LowerText(response_text),
             {"plan", "task", "todo", "step", "action", "schedule", "organize",
              "deadline", "project", "complete", "finish", "work on", "need to"})

extract_tasks_from_response_NoGeneralTask(response_text) ==
    IF ~has_tasks(response_text) THEN <<>>
    ELSE LinesTasks(SplitLines(response_text))

extract_tasks_from_response(response_text) ==
    IF ~has_tasks(response_text) THEN <<>>
    ELSE With(LinesTasks(SplitLines(response_text)), LAMBDA tasks :
             IF tasks = <<>> /\ TextLen(response_text) > 20
             THEN <<GeneralTask(response_text)>>
             ELSE tasks)

-----------------------------------------------------------------------------
\* analyze_audio_content: the filename-based guess and the results built
\* from it. A filename is a text; a value that is None or a str is a record.

Filenames ==
    {<<"Meeting", ".mp3">>, <<"memo", ".wav">>, <<"interview", ".mp3">>,
     <<"dramatic reading", ".mp3">>, <<"track01", ".mp3">>}

SomeText(t) == [none |-> FALSE, text |-> t]

\* truth value of None or a str
TruthyText(o) == ~o.none /\ o.text /= <<>>

\* "Determine audio type from filename": the two entry points differ in the
\* words of the interview branch
AudioType(name_lower, interview_words) ==
    IF Mentions(name_lower, {"meeting", "conference", "call"}) THEN "meeting recording"
    ELSE IF Mentions(name_lower, {"note", "memo", "reminder"}) THEN "voice note"
    ELSE IF Mentions(name_lower, interview_words) THEN "interview/conversation"
    ELSE IF Mentions(name_lower, {"presentation", "speech", "talk", "dramatic", "reading"})
         THEN "presentation/speech"
    ELSE "general audio"

\* a task dictionary whose description is an f-string ending in the filename
FileTask(title, about, filename, priority, category) ==
    [title |-> <<title>>, description |-> <<about>> \o filename,
     priority |-> priority, category |-> category, status |-> "pending"]

\* main_production.py, "Fallback analysis based on filename"
mp_AudioFallback(filename) ==
    IF Mentions(LowerText(filename), {"dramatic reading"})
    THEN [text |-> "This appears to be a dramatic reading or presentation.",
          tasks |-> <<FileTask("Review dramatic reading content",
                               "Analyze the content and message from ", filename,
                               "medium", "content")>>]
    ELSE [text |-> "Audio file processed successfully.",
          tasks |-> <<FileTask("Review audio content",
                               "Analyze and extract information from ", filename,
                               "medium", "general")>>]

\* the words of a transcription outcome of the production chain
AtomsOf(transcription) ==
    IF transcription = "call the client asap"
    THEN <<"call", " ", "the client", " ", "asap">>
    ELSE <<>>

\* main_ai_enhanced.py: the module globals before startup_event
NoModels == [groq_client |-> None, whisper_model |-> None, sentiment_model |-> None]

\* "Fallback to intelligent analysis based on filename": the transcription
\* and the tasks. The meeting branch assigns the text under its own test and
\* the tasks under "if not transcription"; the other branches hang on the
\* else of "if not transcription".
EnhancedFallback(filename, audio_type, transcription) ==
    IF ~TruthyText(transcription)
    THEN [transcription |-> IF audio_type = "meeting recording"
                            THEN SomeText(<<"[Meeting recording from ">> \o filename
                                          \o <<"] This appears to be a meeting recording.">>)
                            ELSE transcription,
          tasks |-> <<FileTask("Process meeting action items",
                               "Extract and assign action items from ", filename,
                               "high", "meetings"),
                      FileTask("Send meeting summary",
                               "Distribute summary of meeting recorded in ", filename,
                               "medium", "communication")>>]
    ELSE IF audio_type = "voice note"
    THEN [transcription |-> SomeText(<<"[Voice note from ">> \o filename
                                     \o <<"] This appears to be a personal voice note or reminder.">>),
          tasks |-> <<FileTask("Process voice note", "Convert voice note ", filename,
                               "medium", "personal")>>]
    ELSE IF audio_type = "interview/conversation"
    THEN [transcription |-> SomeText(<<"[Interview/conversation from ">> \o filename
                                     \o <<"] This appears to be an interview.">>),
          tasks |-> <<FileTask("Review interview content",
                               "Extract insights and follow-ups from ", filename,
                               "high", "review")>>]
    ELSE IF Mentions(LowerText(filename), {"dramatic reading"})
    THEN [transcription |-> SomeText(<<"Audio content analysis for '">> \o filename
                                     \o <<"': This appears to be a dramatic reading.">>),
          tasks |-> <<FileTask("Review dramatic reading content",
                               "Analyze the content and message from ", filename,
                               "medium", "content")>>]
    ELSE [transcription |-> SomeText(<<"Audio analysis for '">> \o filename
                                     \o <<"': Audio file processed successfully.">>),
          tasks |-> <<FileTask("Review audio content",
                               "Analyze and extract information from ", filename,
                               "medium", "general")>>]

\* main_ai_enhanced.py, analyze_audio_content: the attempts made and the
\* dictionary returned. Groq is tried when there is a client and a file,
\* Whisper when nothing usable came back and there is a model and a file.
en_analyze_audio_content(filename, file_path, g, groq_out, whisper_out, sentiment_out, spoken) ==
    LET name_lower == LowerText(filename)
        audio_type == AudioType(name_lower, {"interview", "conversation"})
        tried_groq == g.groq_client /= None /\ file_path
        first == IF tried_groq /\ groq_out = "text" THEN SomeText(spoken)
                 ELSE [none |-> TRUE, text |-> <<>>]
        tried_whisper == ~TruthyText(first) /\ g.whisper_model /= None /\ file_path
        transcription == IF tried_whisper /\ whisper_out = "text" THEN SomeText(spoken)
                         ELSE first
        ai_processed == \/ tried_groq /\ groq_out = "text"
                        \/ tried_whisper /\ whisper_out = "text"
        fb == EnhancedFallback(filename, audio_type, transcription)
    IN [attempts |-> (IF tried_groq THEN <<Attempt("groq", groq_out)>> ELSE <<>>)
                     \o (IF tried_whisper THEN <<Attempt("whisper", whisper_out)>> ELSE <<>>),
        value |-> IF TruthyText(transcription) /\ ai_processed
                  THEN [transcription |-> transcription, audio_type |-> audio_type,
                        sentiment |-> IF g.sentiment_model /= None /\ sentiment_out /= "raise"
                                      THEN sentiment_out ELSE "neutral",
                        tasks |-> extract_tasks_from_text(transcription.text),
                        confidence |-> 90, ai_processed |-> TRUE]
                  ELSE [transcription |-> fb.transcription, audio_type |-> audio_type,
                        sentiment |->
                            IF Mentions(name_lower, {"urgent", "important", "critical"})
                            THEN "serious"
                            ELSE IF Mentions(name_lower, {"casual", "chat", "informal"})
                            THEN "positive"
                            ELSE "neutral",
                        tasks |-> fb.tasks, confidence |-> 80]]

-----------------------------------------------------------------------------
\* The text functions called on their own

\* texts of at most n atoms drawn from a small vocabulary
RECURSIVE TextsUpTo(_)
TextsUpTo(n) ==
    IF n = 0 THEN {<<>>}
    ELSE LET shorter == TextsUpTo(n - 1)
         IN shorter \cup
            {Append(t, a) : t \in {u \in shorter : Len(u) = n - 1},
                            a \in {" ", "\n", ".", "need to", "buy milk", "Call", "urgent", "1."}}

\* a text said n times over
RECURSIVE Repeated(_, _)
Repeated(t, n) == IF n = 0 THEN <<>> ELSE t \o Repeated(t, n - 1)

\* those texts, a few longer ones, and a line and a sentence said ManyTimes
Texts ==
    TextsUpTo(MaxTextLen) \cup
    {Repeated(<<"task:", "the budget", "\n">>, ManyTimes),
     Repeated(<<"call", " ", "finish report", ".", " ">>, ManyTimes)} \cup
    {<<"need to", " ", "buy milk", ".">>,
     <<"urgent", ":", " ", "call", " ", "the client", " ", "asap", ".">>,
     <<"1.", " ", "Call", " ", "dentist", "\n", "2.", " ", "Finish report">>,
     <<" ", "\n", "\t", " ", "\n">>,
     <<"need to", " ", "review", " ", "the budget", " ", "later">>,
     <<"call", " ", "the client", ".", "need to", " ", "buy milk">>,
     <<"task:", " ", "review", " ", "the budget", "\n", "plan", " ", "it">>}

NoReturn == [fn |-> "none"]

InitTextIdle ==
    /\ text_in = <<>>
    /\ enhanced = NoModels
    /\ returned = NoReturn

ExtractTasksFromText ==
    /\ returned' = [fn |-> "extract_tasks_from_text", value |-> extract_tasks_from_text(text_in)]
    /\ UNCHANGED <<text_in, enhanced, monVars, aiVars, lazyVars, reqVars, storeVars, obsVars,
                 rateVars>>

ExtractTasksProduction ==
    /\ returned' = [fn |-> "main_production.extract_tasks_from_text",
                    value |-> mp_extract_tasks_from_text(text_in)]
    /\ UNCHANGED <<text_in, enhanced, monVars, aiVars, lazyVars, reqVars, storeVars, obsVars,
                 rateVars>>

ExtractTasksFromResponse ==
    /\ returned' = [fn |-> "_extract_tasks_from_response",
                    value |-> extract_tasks_from_response(text_in)]
    /\ UNCHANGED <<text_in, enhanced, monVars, aiVars, lazyVars, reqVars, storeVars, obsVars,
                 rateVars>>

\* main_ai_enhanced.py: one call of analyze_audio_content, text_in being what
\* the recording says; the function has no await, so it runs to its return in
\* one step
AnalyzeAudioEnhanced ==
    /\ \E filename \in Filenames, file_path \in BOOLEAN,
          groq_out \in {"raise", "text"}, whisper_out \in {"raise", "text"},
          sentiment_out \in {"raise", "positive"} :
         LET r == en_analyze_audio_content(filename, file_path, enhanced,
                                           groq_out, whisper_out, sentiment_out, text_in)
         IN returned' = [fn |-> "analyze_audio_content", filename |-> filename,
                         file_path |-> file_path, attempts |-> r.attempts,
                         value |-> r.value]
    /\ UNCHANGED <<text_in, enhanced, monVars, aiVars, lazyVars, reqVars, storeVars, obsVars,
                 rateVars>>

-----------------------------------------------------------------------------
\* main_production.py: lazy loaders and analyze_audio_content

\* get_groq_client: one load attempt, made when the key is configured; the
\* client is kept only when it loads and offers audio transcription.
GroqLoadOutcomes == {"ok", "no_audio_api", "raise"}

GetGroqClient(load) ==
    IF ~groq_attempted /\ GROQ_API_KEY
    THEN [client |-> IF load = "ok" THEN "client" ELSE None, attempted |-> TRUE]
    ELSE [client |-> mp_groq_client, attempted |-> groq_attempted]

\* get_transformers_models: one load attempt; the import or the Whisper
\* pipeline may fail (nothing loaded), or the sentiment pipeline may fail
\* after Whisper was stored.
TransformersLoadOutcomes == {"ok", "sentiment_fails", "import_fails"}

GetTransformersModels(load) ==
    IF ~transformers_attempted
    THEN [whisper   |-> IF load = "import_fails" THEN whisper_model ELSE "pipeline",
          sentiment |-> IF load = "ok" THEN "pipeline" ELSE sentiment_model,
          attempted |-> TRUE]
    ELSE [whisper |-> whisper_model, sentiment |-> sentiment_model,
          attempted |-> transformers_attempted]

\* What a transcription call can do: raise, return an empty text, return a text
TranscribeOutcomes == {"raise", "", "call the client asap"}

AttemptOutcome(o) == IF o = "raise" THEN "raise" ELSE IF o = "" THEN "empty" ELSE "ok"

\* analyze_audio_content up to the Groq branch: get_groq_client() runs
AudioStart ==
    /\ pc = "idle"
    /\ served < MaxRequests
    /\ served' = served + 1
    /\ \E file_path \in BOOLEAN, load \in GroqLoadOutcomes :
         LET g == GetGroqClient(load) IN
         /\ mp_groq_client' = g.client
         /\ groq_attempted' = g.attempted
         /\ loads' = [loads EXCEPT !["groq"] = @ + (IF g.attempted /= groq_attempted THEN 1 ELSE 0)]
         /\ call' = [NoCall EXCEPT !.kind = "audio", !.file_path = file_path]
         /\ pc' = IF g.client /= None /\ file_path THEN "aud_groq" ELSE "aud_fallback"
    /\ tracker' = NoTracker
    /\ attempts' = <<>>
    /\ recorded' = <<>>
    /\ result' = NoResult
    /\ http' = 0
    /\ UNCHANGED <<monVars, aiVars, GROQ_API_KEY, whisper_model, sentiment_model,
                   transformers_attempted, storeVars, health, dashboard, call_log, textVars, rateVars>>

\* the Groq transcription attempt
AudioGroq ==
    /\ pc = "aud_groq"
    /\ \E o \in TranscribeOutcomes :
         /\ attempts' = Append(attempts, Attempt("groq", AttemptOutcome(o)))
         /\ call' = IF o = "raise" THEN call
                    ELSE [call EXCEPT !.transcription = o, !.ai_processed = TRUE,
                                      !.provider = "groq"]
    /\ pc' = "aud_fallback"
    /\ UNCHANGED <<tracker, recorded, result, http, served, monVars, aiVars, lazyVars, storeVars, obsVars, textVars, rateVars>>

\* "if not transcription and file_path": the local Whisper attempt
WhisperWanted_Always(c) == c.file_path

WhisperWanted(c) == ~Truthy(c.transcription) /\ c.file_path

AudioFallback ==
    /\ pc = "aud_fallback"
    /\ \E load \in TransformersLoadOutcomes, o \in TranscribeOutcomes :
         LET t == IF WhisperWanted(call) THEN GetTransformersModels(load)
                  ELSE [whisper |-> whisper_model, sentiment |-> sentiment_model,
                        attempted |-> transformers_attempted]
             tried == WhisperWanted(call) /\ t.whisper /= None IN
         /\ whisper_model' = t.whisper
         /\ sentiment_model' = t.sentiment
         /\ transformers_attempted' = t.attempted
         /\ loads' = [loads EXCEPT !["transformers"] = @ + (IF t.attempted /= transformers_attempted THEN 1 ELSE 0)]
         /\ attempts' = IF tried
                        THEN Append(attempts, Attempt("whisper", AttemptOutcome(o)))
                        ELSE attempts
         /\ call' = IF tried /\ o /= "raise"
                    THEN [call EXCEPT !.transcription = o, !.ai_processed = TRUE,
                                      !.provider = "whisper"]
                    ELSE call
    /\ pc' = "aud_analyze"
    /\ UNCHANGED <<tracker, recorded, result, http, served, monVars, aiVars,
                   GROQ_API_KEY, mp_groq_client, groq_attempted, storeVars, health, dashboard, call_log, textVars, rateVars>>

\* "if transcription and ai_processed": the transcription is analysed (the
\* sentiment model is fetched through get_transformers_models); otherwise the
\* filename-based analysis is returned. No metric is recorded on either path.
\* The filename is an argument of the call; nothing before this step reads it.
AudioFinish ==
    /\ pc = "aud_analyze"
    /\ \E load \in TransformersLoadOutcomes, filename \in Filenames :
         LET ai == Truthy(call.transcription) /\ call.ai_processed
             audio_type == AudioType(LowerText(filename),
                                     {"interview", "conversation", "discussion"})
             t == IF ai THEN GetTransformersModels(load)
                  ELSE [whisper |-> whisper_model, sentiment |-> sentiment_model,
                        attempted |-> transformers_attempted] IN
         /\ whisper_model' = t.whisper
         /\ sentiment_model' = t.sentiment
         /\ transformers_attempted' = t.attempted
         /\ loads' = [loads EXCEPT !["transformers"] = @ + (IF t.attempted /= transformers_attempted THEN 1 ELSE 0)]
         /\ result' = IF ai
                      THEN [op |-> "analyze_audio_content", status |-> "ai_processed",
                            provider |-> call.provider, text |-> call.transcription,
                            audio_type |-> audio_type,
                            tasks |-> mp_extract_tasks_from_text(AtomsOf(call.transcription))]
                      ELSE [op |-> "analyze_audio_content", status |-> "fallback",
                            provider |-> "none", text |-> mp_AudioFallback(filename).text,
                            audio_type |-> audio_type,
                            tasks |-> mp_AudioFallback(filename).tasks]
    /\ http' = 200
    /\ pc' = "idle"
    /\ UNCHANGED <<call, tracker, attempts, recorded, served, monVars, aiVars,
                   GROQ_API_KEY, mp_groq_client, groq_attempted, storeVars, health, dashboard, call_log, textVars, rateVars>>

-----------------------------------------------------------------------------
\* Storage: services/database.py (DatabaseService), services/postgres_db.py
\* (PostgreSQLDatabaseService) and the task endpoints of main_production.py.
\* A probe's and a backend call's success is the environment's, chosen at
\* each probe and at each call.

MaxTasks == 2           \* rows a store may hold in the model

Backends == {"postgresql", "supabase"}
Summaries == {"buy milk", "call dentist"}
Patches == {"completed"}
TaskIds == 1..(MaxTasks + 1)

Task(id, summary, status, created_at) ==
    [id |-> id, summary |-> summary, status |-> status, created_at |-> created_at]

NoTask == Task(0, None, None, 0)

NoRet == [op |-> "none", kind |-> "none", task |-> NoTask, list |-> <<>>,
          flag |-> FALSE, count |-> 0, failed |-> FALSE, summary |-> None,
          id |-> 0, http |-> 0, source |-> "none"]

Service(ct, init, mem, nid) ==
    [connection_type |-> ct, initialized |-> init, memory_storage |-> mem, next_id |-> nid]

\* __init__ of both service classes
NewService == Service("none", FALSE, <<>>, 1)

Probe(backend, ok) == [backend |-> backend, ok |-> ok]

\* initialize_connections: _try_postgresql, then _try_supabase, then memory.
\* PostgreSQLDatabaseService._try_postgresql is disabled and returns False;
\* only PostgreSQLDatabaseService sets self.initialized.
Initialize_SupabaseFirst(c, s, pgUp, sbUp) ==
    LET pgOk == c = "DatabaseService" /\ pgUp IN
    [s |-> [s EXCEPT !.connection_type = IF sbUp THEN "supabase"
                                         ELSE IF pgOk THEN "postgresql" ELSE "memory",
                     !.initialized = IF c = "DatabaseService" THEN @ ELSE TRUE],
     probes |-> IF sbUp THEN <<Probe("supabase", TRUE)>>
                ELSE <<Probe("supabase", FALSE), Probe("postgresql", pgOk)>>]

Initialize(c, s, pgUp, sbUp) ==
    LET pgOk == c = "DatabaseService" /\ pgUp IN
    [s |-> [s EXCEPT !.connection_type = IF pgOk THEN "postgresql"
                                         ELSE IF sbUp THEN "supabase" ELSE "memory",
                     !.initialized = IF c = "DatabaseService" THEN @ ELSE TRUE],
     probes |-> IF pgOk THEN <<Probe("postgresql", TRUE)>>
                ELSE <<Probe("postgresql", FALSE), Probe("supabase", sbUp)>>]

\* "if not self.initialized: await self.initialize_connections()" at the head
\* of every operation of PostgreSQLDatabaseService; DatabaseService has none.
EnsureInitialized_Always(c, s, pgUp, sbUp) ==
    IF c = "PostgreSQLDatabaseService"
    THEN Initialize(c, s, pgUp, sbUp)
    ELSE [s |-> s, probes |-> <<>>]

EnsureInitialized(c, s, pgUp, sbUp) ==
    IF c = "PostgreSQLDatabaseService" /\ ~s.initialized
    THEN Initialize(c, s, pgUp, sbUp)
    ELSE [s |-> s, probes |-> <<>>]

\* list.sort(key=created_at, reverse=True), as get_tasks applies it in place
RECURSIVE InsertDesc(_, _)
InsertDesc(t, sorted) ==
    IF sorted = <<>> THEN <<t>>
    ELSE IF t.created_at > Head(sorted).created_at THEN <<t>> \o sorted
    ELSE <<Head(sorted)>> \o InsertDesc(t, Tail(sorted))

RECURSIVE SortDesc(_)
SortDesc(ts) ==
    IF ts = <<>> THEN <<>>
    ELSE InsertDesc(Head(ts), SortDesc(Tail(ts)))

HasId(ts, id) == \E i \in 1..Len(ts) : ts[i].id = id
FirstIndex(ts, id) == CHOOSE i \in 1..Len(ts) : ts[i].id = id /\ \A j \in 1..(i-1) : ts[j].id /= id
WithoutId(ts, id) == SelectSeq(ts, LAMBDA t : t.id /= id)
PatchAll(ts, id, st) == [i \in 1..Len(ts) |-> IF ts[i].id = id THEN [ts[i] EXCEPT !.status = st] ELSE ts[i]]
PatchFirst(ts, id, st) == [ts EXCEPT ![FirstIndex(ts, id)].status = st]

\* The outcome of one service operation: the service afterwards, the external
\* tables afterwards, the returned value and the stores the operation used.
Outcome(s, R, Q, r, t, p) ==
    [s |-> s, remote |-> R, remote_seq |-> Q, ret |-> r, touched |-> t, probes |-> p]

\* Whether the backend query of get_tasks orders by created_at descending:
\* PostgreSQLDatabaseService's Supabase query does not.
OrdersRows(c, ct) == c = "DatabaseService" \/ ct = "postgresql"

\* get_tasks
GetTasksOp(c, s0, R, Q, pgUp, sbUp, ok) ==
    LET e  == EnsureInitialized(c, s0, pgUp, sbUp)
        s  == e.s
        ct == s.connection_type
        r  == [NoRet EXCEPT !.op = "get_tasks", !.kind = "list"] IN
    IF ct \in Backends
    THEN Outcome(s, R, Q,
                 IF ok THEN [r EXCEPT !.list = IF OrdersRows(c, ct) THEN SortDesc(R[ct])
                                               ELSE R[ct]]
                 ELSE [r EXCEPT !.list = <<>>, !.failed = TRUE],
                 {ct}, e.probes)
    ELSE LET sorted == SortDesc(s.memory_storage) IN
         Outcome([s EXCEPT !.memory_storage = sorted], R, Q,
                 [r EXCEPT !.list = sorted], {"memory"}, e.probes)

\* the memory branch of create_task
CreateInMemory(s, summary, now) ==
    LET t == Task(s.next_id, summary, "pending", now) IN
    [s |-> [s EXCEPT !.memory_storage = Append(@, t), !.next_id = @ + 1], task |-> t]

\* What one call to the external backend does
CallOutcomes == {"ok", "empty", "raise"}

\* create_task: when the Supabase insert raises, PostgreSQLDatabaseService
\* stores the task in memory_storage and returns it; DatabaseService returns
\* None. An insert that returns no row gives None in both.
CreateTaskOp(c, s0, R, Q, pgUp, sbUp, res, summary, now) ==
    LET e  == EnsureInitialized(c, s0, pgUp, sbUp)
        s  == e.s
        ct == s.connection_type
        r  == [NoRet EXCEPT !.op = "create_task", !.summary = summary]
        row == Task(Q[ct] + 1, summary, "pending", now)
        m  == CreateInMemory(s, summary, now) IN
    IF ct \in Backends
    THEN IF res = "ok"
         THEN Outcome(s, [R EXCEPT ![ct] = Append(@, row)], [Q EXCEPT ![ct] = @ + 1],
                      [r EXCEPT !.kind = "task", !.task = row], {ct}, e.probes)
         ELSE IF res = "empty"
         THEN Outcome(s, R, Q, [r EXCEPT !.kind = "none"], {ct}, e.probes)
         ELSE IF c = "PostgreSQLDatabaseService" /\ ct = "supabase"
         THEN Outcome(m.s, R, Q,
                      [r EXCEPT !.kind = "task", !.task = m.task, !.failed = TRUE],
                      {ct, "memory"}, e.probes)
         ELSE Outcome(s, R, Q, [r EXCEPT !.kind = "none", !.failed = TRUE],
                      {ct}, e.probes)
    ELSE Outcome(m.s, R, Q, [r EXCEPT !.kind = "task", !.task = m.task],
                 {"memory"}, e.probes)

\* the memory branch of update_task: the first task with the id is patched
UpdateInMemory(s, r, id, st) ==
    IF HasId(s.memory_storage, id)
    THEN LET ts == PatchFirst(s.memory_storage, id, st) IN
         [s |-> [s EXCEPT !.memory_storage = ts],
          ret |-> [r EXCEPT !.kind = "task", !.task = ts[FirstIndex(ts, id)]]]
    ELSE [s |-> s, ret |-> [r EXCEPT !.kind = "none"]]

\* Whether update_task / delete_task go to the external backend.
\* PostgreSQLDatabaseService branches on connection_type; DatabaseService
\* branches on self.initialized ("if not self.initialized: use in-memory
\* storage") and otherwise calls self.supabase.
UsesBackend(c, s) ==
    IF c = "DatabaseService" THEN s.initialized
    ELSE s.connection_type \in Backends

BackendOf(c, s) ==
    IF c = "DatabaseService" THEN "supabase" ELSE s.connection_type

\* update_task
UpdateTaskOp(c, s0, R, Q, pgUp, sbUp, ok, id, st) ==
    LET e  == EnsureInitialized(c, s0, pgUp, sbUp)
        s  == e.s
        r  == [NoRet EXCEPT !.op = "update_task", !.id = id]
        b  == BackendOf(c, s)
        m  == UpdateInMemory(s, r, id, st) IN
    IF UsesBackend(c, s)
    THEN IF ~ok
         THEN Outcome(s, R, Q, [r EXCEPT !.kind = "none", !.failed = TRUE], {b}, e.probes)
         ELSE IF HasId(R[b], id)
         THEN LET rows == PatchAll(R[b], id, st) IN
              Outcome(s, [R EXCEPT ![b] = rows], Q,
                      [r EXCEPT !.kind = "task", !.task = rows[FirstIndex(rows, id)]],
                      {b}, e.probes)
         ELSE Outcome(s, R, Q, [r EXCEPT !.kind = "none"], {b}, e.probes)
    ELSE Outcome(m.s, R, Q, m.ret, {"memory"}, e.probes)

\* delete_task: PostgreSQLDatabaseService reports whether a row was deleted;
\* DatabaseService's backend branch returns True whenever the call returns.
DeleteTaskOp(c, s0, R, Q, pgUp, sbUp, ok, id) ==
    LET e  == EnsureInitialized(c, s0, pgUp, sbUp)
        s  == e.s
        r  == [NoRet EXCEPT !.op = "delete_task", !.kind = "bool", !.id = id]
        b  == BackendOf(c, s) IN
    IF UsesBackend(c, s)
    THEN IF ~ok
         THEN Outcome(s, R, Q, [r EXCEPT !.flag = FALSE, !.failed = TRUE], {b}, e.probes)
         ELSE Outcome(s, [R EXCEPT ![b] = WithoutId(@, id)], Q,
                      [r EXCEPT !.flag = (c = "DatabaseService" \/ HasId(R[b], id))],
                      {b}, e.probes)
    ELSE Outcome([s EXCEPT !.memory_storage = WithoutId(@, id)], R, Q,
                 [r EXCEPT !.flag = HasId(s.memory_storage, id)], {"memory"}, e.probes)

\* clear_all_tasks
ClearAllTasksOp(c, s0, R, Q, pgUp, sbUp, ok) ==
    LET e  == EnsureInitialized(c, s0, pgUp, sbUp)
        s  == e.s
        ct == s.connection_type
        r  == [NoRet EXCEPT !.op = "clear_all_tasks", !.kind = "count"] IN
    IF ct \in Backends
    THEN IF ok
         THEN Outcome(s, [R EXCEPT ![ct] = <<>>], Q, [r EXCEPT !.count = Len(R[ct])],
                      {ct}, e.probes)
         ELSE Outcome(s, R, Q, [r EXCEPT !.count = 0, !.failed = TRUE], {ct}, e.probes)
    ELSE Outcome([s EXCEPT !.memory_storage = <<>>], R, Q,
                 [r EXCEPT !.count = Len(s.memory_storage)], {"memory"}, e.probes)

\* health_check. PostgreSQLDatabaseService initializes lazily and reports the
\* connection type without calling the backend; DatabaseService queries the
\* active backend and reports "error" when the query raises. The reply is
\* kept as: source = "type", flag = status is "connected", failed = status
\* is "error".
HealthCheckOp(c, s0, R, Q, pgUp, sbUp, ok) ==
    LET e  == EnsureInitialized(c, s0, pgUp, sbUp)
        s  == e.s
        ct == s.connection_type
        r  == [NoRet EXCEPT !.op = "health_check", !.kind = "health", !.source = ct] IN
    IF c = "DatabaseService"
    THEN IF ct \in Backends
         THEN Outcome(s, R, Q, [r EXCEPT !.flag = ok, !.failed = ~ok], {ct}, e.probes)
         ELSE Outcome(s, R, Q, [r EXCEPT !.source = "memory",
                                         !.count = Len(s.memory_storage)],
                      {"memory"}, e.probes)
    ELSE IF ct = "memory"
         THEN Outcome(s, R, Q, [r EXCEPT !.count = Len(s.memory_storage)],
                      {"memory"}, e.probes)
         ELSE Outcome(s, R, Q, [r EXCEPT !.flag = TRUE], {}, e.probes)

-----------------------------------------------------------------------------
\* The operations of the module-level database_service (cls is the class it
\* was built from), each called by a route with its arguments.

Cur == Service(connection_type, initialized, memory_storage, next_id)

Now == ops + 1

HasRoom == /\ Len(memory_storage) < MaxTasks
           /\ Len(tasks_db) < MaxTasks
           /\ \A b \in Backends : Len(remote[b]) < MaxTasks

\* The assignments one service operation leaves behind
Apply(o) ==
    /\ connection_type' = o.s.connection_type
    /\ initialized' = o.s.initialized
    /\ memory_storage' = o.s.memory_storage
    /\ next_id' = o.s.next_id
    /\ remote' = o.remote
    /\ remote_seq' = o.remote_seq
    /\ ret' = o.ret
    /\ touched' = o.touched
    /\ probes' = IF o.probes = <<>> THEN probes ELSE o.probes
    /\ probe_count' = probe_count + Len(o.probes)
    /\ ops' = ops + 1

IsService == cls \in {"DatabaseService", "PostgreSQLDatabaseService"}

InitializeConnections ==
    /\ IsService /\ ops < MaxOps
    /\ \E pgUp, sbUp \in BOOLEAN :
         LET i == Initialize(cls, Cur, pgUp, sbUp) IN
         Apply(Outcome(i.s, remote, remote_seq,
                       [NoRet EXCEPT !.op = "initialize_connections"], {}, i.probes))
    /\ UNCHANGED <<cls, tasks_db>>
    /\ UNCHANGED <<monVars, aiVars, lazyVars, reqVars, obsVars, textVars, rateVars>>

GetTasks ==
    /\ IsService /\ ops < MaxOps
    /\ \E pgUp, sbUp, ok \in BOOLEAN :
         Apply(GetTasksOp(cls, Cur, remote, remote_seq, pgUp, sbUp, ok))
    /\ UNCHANGED <<cls, tasks_db>>
    /\ UNCHANGED <<monVars, aiVars, lazyVars, reqVars, obsVars, textVars, rateVars>>

CreateTask ==
    /\ IsService /\ ops < MaxOps /\ HasRoom
    /\ \E pgUp, sbUp \in BOOLEAN, res \in CallOutcomes, summary \in Summaries :
         Apply(CreateTaskOp(cls, Cur, remote, remote_seq, pgUp, sbUp, res, summary, Now))
    /\ UNCHANGED <<cls, tasks_db>>
    /\ UNCHANGED <<monVars, aiVars, lazyVars, reqVars, obsVars, textVars, rateVars>>

UpdateTask ==
    /\ IsService /\ ops < MaxOps
    /\ \E pgUp, sbUp, ok \in BOOLEAN, id \in TaskIds, st \in Patches :
         Apply(UpdateTaskOp(cls, Cur, remote, remote_seq, pgUp, sbUp, ok, id, st))
    /\ UNCHANGED <<cls, tasks_db>>
    /\ UNCHANGED <<monVars, aiVars, lazyVars, reqVars, obsVars, textVars, rateVars>>

DeleteTask ==
    /\ IsService /\ ops < MaxOps
    /\ \E pgUp, sbUp, ok \in BOOLEAN, id \in TaskIds :
         Apply(DeleteTaskOp(cls, Cur, remote, remote_seq, pgUp, sbUp, ok, id))
    /\ UNCHANGED <<cls, tasks_db>>
    /\ UNCHANGED <<monVars, aiVars, lazyVars, reqVars, obsVars, textVars, rateVars>>

ClearAllTasks ==
    /\ IsService /\ ops < MaxOps
    /\ \E pgUp, sbUp, ok \in BOOLEAN :
         Apply(ClearAllTasksOp(cls, Cur, remote, remote_seq, pgUp, sbUp, ok))
    /\ UNCHANGED <<cls, tasks_db>>
    /\ UNCHANGED <<monVars, aiVars, lazyVars, reqVars, obsVars, textVars, rateVars>>

HealthCheck ==
    /\ IsService /\ ops < MaxOps
    /\ \E pgUp, sbUp, ok \in BOOLEAN :
         Apply(HealthCheckOp(cls, Cur, remote, remote_seq, pgUp, sbUp, ok))
    /\ UNCHANGED <<cls, tasks_db>>
    /\ UNCHANGED <<monVars, aiVars, lazyVars, reqVars, obsVars, textVars, rateVars>>

-----------------------------------------------------------------------------
\* The task endpoints of main_production.py. Each request builds a new
\* PostgreSQLDatabaseService, runs initialize_connections on it, and uses it
\* unless its connection_type is "memory"; otherwise the module-level list
\* tasks_db is the store. The service variables hold the request's instance.

IsEndpoints == cls = "main_production"

RequestService(pgUp, sbUp) == Initialize("PostgreSQLDatabaseService", NewService, pgUp, sbUp)

UsesDatabase(s) == s.connection_type /= "memory"

\* new_task = {"id": len(tasks_db) + 1, ...}
NewMemoryTask(summary) == Task(Len(tasks_db) + 1, summary, "pending", Now)

Reply(r, code, source) == [r EXCEPT !.http = code, !.source = source]

\* What one request leaves behind: the reply, the stores used, tasks_db
Respond(i, o, r, t, tdb) ==
    /\ Apply([o EXCEPT !.ret = r, !.touched = t, !.probes = i.probes])
    /\ tasks_db' = tdb
    /\ UNCHANGED cls
    /\ UNCHANGED <<monVars, aiVars, lazyVars, reqVars, obsVars, textVars, rateVars>>

\* The outcome of a request that did not call the service
Unused(i) == Outcome(i.s, remote, remote_seq, NoRet, {}, <<>>)

MP_GetTasks ==
    /\ IsEndpoints /\ ops < MaxOps
    /\ \E pgUp, sbUp, ok \in BOOLEAN :
         LET i == RequestService(pgUp, sbUp)
             o == GetTasksOp("PostgreSQLDatabaseService", i.s, remote, remote_seq,
                             pgUp, sbUp, ok) IN
         IF UsesDatabase(i.s)
         THEN Respond(i, o, Reply(o.ret, 200, i.s.connection_type), o.touched, tasks_db)
         ELSE Respond(i, Unused(i),
                      Reply([NoRet EXCEPT !.op = "get_tasks", !.kind = "list",
                                          !.list = tasks_db], 200, "memory"),
                      {"tasks_db"}, tasks_db)

MP_CreateTask ==
    /\ IsEndpoints /\ ops < MaxOps /\ HasRoom
    /\ \E pgUp, sbUp \in BOOLEAN, res \in CallOutcomes, summary \in Summaries :
         LET i == RequestService(pgUp, sbUp)
             o == CreateTaskOp("PostgreSQLDatabaseService", i.s, remote, remote_seq,
                               pgUp, sbUp, res, summary, Now)
             t == NewMemoryTask(summary)
             r == [NoRet EXCEPT !.op = "create_task", !.summary = summary,
                                !.kind = "task", !.task = t] IN
         IF UsesDatabase(i.s)
         THEN IF o.ret.kind = "task"
              THEN Respond(i, o, Reply(o.ret, 200, i.s.connection_type), o.touched,
                           tasks_db)
              ELSE Respond(i, o, Reply([r EXCEPT !.failed = o.ret.failed], 200,
                                       "memory_fallback"),
                           o.touched \cup {"tasks_db"}, Append(tasks_db, t))
         ELSE Respond(i, Unused(i), Reply(r, 200, "memory"), {"tasks_db"},
                      Append(tasks_db, t))

MP_UpdateTask ==
    /\ IsEndpoints /\ ops < MaxOps
    /\ \E pgUp, sbUp, ok \in BOOLEAN, id \in TaskIds, st \in Patches :
         LET i == RequestService(pgUp, sbUp)
             o == UpdateTaskOp("PostgreSQLDatabaseService", i.s, remote, remote_seq,
                               pgUp, sbUp, ok, id, st)
             r == [NoRet EXCEPT !.op = "update_task", !.id = id]
             tdb == PatchFirst(tasks_db, id, st) IN
         IF UsesDatabase(i.s)
         THEN Respond(i, o,
                      Reply(o.ret, IF o.ret.kind = "task" THEN 200 ELSE 404,
                            i.s.connection_type),
                      o.touched, tasks_db)
         ELSE IF HasId(tasks_db, id)
         THEN Respond(i, Unused(i),
                      Reply([r EXCEPT !.kind = "task",
                                      !.task = tdb[FirstIndex(tdb, id)]], 200, "memory"),
                      {"tasks_db"}, tdb)
         ELSE Respond(i, Unused(i), Reply(r, 404, "memory"), {"tasks_db"}, tasks_db)

\* tasks_db.pop(task_index)
PopFirst(ts, id) ==
    LET k == FirstIndex(ts, id) IN
    [j \in 1..(Len(ts) - 1) |-> IF j < k THEN ts[j] ELSE ts[j + 1]]

MP_DeleteTask ==
    /\ IsEndpoints /\ ops < MaxOps
    /\ \E pgUp, sbUp, ok \in BOOLEAN, id \in TaskIds :
         LET i == RequestService(pgUp, sbUp)
             o == DeleteTaskOp("PostgreSQLDatabaseService", i.s, remote, remote_seq,
                               pgUp, sbUp, ok, id)
             r == [NoRet EXCEPT !.op = "delete_task", !.kind = "bool", !.id = id] IN
         IF UsesDatabase(i.s)
         THEN Respond(i, o,
                      Reply(o.ret, IF o.ret.flag THEN 200 ELSE 404, i.s.connection_type),
                      o.touched, tasks_db)
         ELSE IF HasId(tasks_db, id)
         THEN Respond(i, Unused(i), Reply([r EXCEPT !.flag = TRUE], 200, "memory"),
                      {"tasks_db"}, PopFirst(tasks_db, id))
         ELSE Respond(i, Unused(i), Reply(r, 404, "memory"), {"tasks_db"}, tasks_db)

MP_ClearAllTasks ==
    /\ IsEndpoints /\ ops < MaxOps
    /\ \E pgUp, sbUp, ok \in BOOLEAN :
         LET i == RequestService(pgUp, sbUp)
             o == ClearAllTasksOp("PostgreSQLDatabaseService", i.s, remote, remote_seq,
                                  pgUp, sbUp, ok) IN
         IF UsesDatabase(i.s)
         THEN Respond(i, o, Reply(o.ret, 200, i.s.connection_type), o.touched, tasks_db)
         ELSE Respond(i, Unused(i),
                      Reply([NoRet EXCEPT !.op = "clear_all_tasks", !.kind = "count",
                                          !.count = Len(tasks_db)], 200, "memory"),
                      {"tasks_db"}, <<>>)

-----------------------------------------------------------------------------
\* The media and chat requests of one process, served one after the other

InitStoreIdle ==
    /\ cls = "none"
    /\ connection_type = "none"
    /\ initialized = FALSE
    /\ memory_storage = <<>>
    /\ next_id = 1
    /\ remote = [b \in Backends |-> <<>>]
    /\ remote_seq = [b \in Backends |-> 0]
    /\ probes = <<>>
    /\ probe_count = 0
    /\ ret = NoRet
    /\ touched = {}
    /\ tasks_db = <<>>
    /\ ops = 0

InitRequestIdle ==
    /\ pc = "idle"
    /\ call = NoCall
    /\ tracker = NoTracker
    /\ attempts = <<>>
    /\ recorded = <<>>
    /\ result = NoResult
    /\ http = 0
    /\ served = 0

InitLazy ==
    /\ GROQ_API_KEY \in BOOLEAN
    /\ mp_groq_client = None
    /\ groq_attempted = FALSE
    /\ whisper_model = None
    /\ sentiment_model = None
    /\ transformers_attempted = FALSE

Init ==
    /\ InitMonitor
    /\ groq_client \in {None, "client"}
    /\ blip = "none"
    /\ InitLazy
    /\ InitRequestIdle
    /\ InitStoreIdle
    /\ InitObsIdle
    /\ InitTextIdle
    /\ InitRateIdle

Next ==
    \/ ChatRequest
    \/ UploadImageStart
    \/ ImageHF
    \/ ImageLocal
    \/ ImageExit
    \/ UploadImageFinish
    \/ AudioStart
    \/ AudioGroq
    \/ AudioFallback
    \/ AudioFinish

Spec == Init /\ [][Next]_vars

\* The storage subsystem on its own: one process whose task routes use a
\* DatabaseService, a PostgreSQLDatabaseService, or the endpoints of
\* main_production.py; no media or chat request is served.
StorageDeployments == {"DatabaseService", "PostgreSQLDatabaseService", "main_production"}

InitStore ==
    /\ InitMonitor
    /\ groq_client = None
    /\ blip = "none"
    /\ InitLazy /\ GROQ_API_KEY = FALSE
    /\ InitRequestIdle
    /\ cls \in StorageDeployments
    /\ connection_type = "none"
    /\ initialized = FALSE
    /\ memory_storage = <<>>
    /\ next_id = 1
    /\ remote = [b \in Backends |-> <<>>]
    /\ remote_seq = [b \in Backends |-> 0]
    /\ probes = <<>>
    /\ probe_count = 0
    /\ ret = NoRet
    /\ touched = {}
    /\ tasks_db = <<>>
    /\ ops = 0
    /\ InitObsIdle
    /\ InitTextIdle
    /\ InitRateIdle

NextStore ==
    \/ InitializeConnections
    \/ GetTasks
    \/ CreateTask
    \/ UpdateTask
    \/ DeleteTask
    \/ ClearAllTasks
    \/ HealthCheck
    \/ MP_GetTasks
    \/ MP_CreateTask
    \/ MP_UpdateTask
    \/ MP_DeleteTask
    \/ MP_ClearAllTasks

SpecStore == InitStore /\ [][NextStore]_vars

\* The monitor on its own: metrics are recorded and health is read; no media,
\* chat or task request is served.
InitMon ==
    /\ InitMonitor
    /\ groq_client = None
    /\ blip = "none"
    /\ InitLazy /\ GROQ_API_KEY = FALSE
    /\ InitRequestIdle
    /\ InitStoreIdle
    /\ InitObsIdle
    /\ InitTextIdle
    /\ InitRateIdle

NextMon ==
    \/ RecordMetricCall
    \/ ServiceHealthRoute
    \/ SystemHealthRoute

SpecMon == InitMon /\ [][NextMon]_vars

\* The monitor under a clock: time passes between the record_metric calls,
\* and each call reads datetime.now() in _check_rate_limits
MaxClock == 120         \* seconds the clock runs for
TickSeconds == 20       \* seconds between two readings of the clock

Tick ==
    /\ clock + TickSeconds <= MaxClock
    /\ clock' = clock + TickSeconds
    /\ UNCHANGED <<reset_time, monVars, aiVars, lazyVars, reqVars, storeVars, obsVars, textVars>>

\* api_monitor.record_metric(metric) at the time of the clock
RecordMetricAt ==
    /\ Len(call_log) < MaxCalls
    /\ \E m \in {c \in MetricInputs : c.status_code = 200 /\ c.response_time = 1} :
         /\ RecordMetric(m, clock >= reset_time[m.service])
         /\ reset_time' = NextResetTime(reset_time, m.service, clock)
         /\ call_log' = Append(call_log, m)
    /\ health' = NoHealth
    /\ dashboard' = NoDashboard
    /\ UNCHANGED <<clock, loads, aiVars, lazyVars, reqVars, storeVars, textVars>>

NextRate ==
    \/ Tick
    \/ RecordMetricAt

SpecRate == InitMon /\ [][NextRate]_vars

\* The text functions on their own: a text is fixed and the three extraction
\* functions are applied to it.
InitIdle ==
    /\ InitMonitor
    /\ groq_client = None
    /\ blip = "none"
    /\ InitLazy /\ GROQ_API_KEY = FALSE
    /\ InitRequestIdle
    /\ InitStoreIdle
    /\ InitObsIdle
    /\ InitRateIdle

InitText ==
    /\ InitIdle
    /\ text_in \in Texts
    /\ enhanced = NoModels
    /\ returned = NoReturn

NextText ==
    \/ ExtractTasksFromText
    \/ ExtractTasksProduction
    \/ ExtractTasksFromResponse

SpecText == InitText /\ [][NextText]_vars

\* main_ai_enhanced.py after startup_event, which may have set each of the
\* globals: uploads of recordings are analysed
InitAudio ==
    /\ InitIdle
    /\ text_in \in {<<>>, <<"need to", " ", "call", " ", "the client">>, <<"buy milk">>}
    /\ enhanced \in [groq_client : {None, "client"}, whisper_model : {None, "pipeline"},
                      sentiment_model : {None, "pipeline"}]
    /\ returned = NoReturn

NextAudio == AnalyzeAudioEnhanced

SpecAudio == InitAudio /\ [][NextAudio]_vars

-----------------------------------------------------------------------------
\* Claims about the media chains and the response generator

Failed(a) == a.outcome \notin {"success", "ok", "caption"}

CountStatus(ms, P(_)) == Cardinality({i \in 1..Len(ms) : P(ms[i].status_code)})

IsSuccessStatus(status_code) == status_code < 400

\* The image chain ran to its end with Hugging Face failing and BLIP succeeding
ImageFallbackDone ==
    /\ call.kind = "image"
    /\ pc = "img_return"
    /\ Len(attempts) = 2
    /\ Failed(attempts[1])
    /\ ~Failed(attempts[2])

\* The audio chain ran to its end with Groq failing and Whisper succeeding
AudioFallbackDone ==
    /\ call.kind = "audio"
    /\ pc = "idle"
    /\ Len(attempts) = 2
    /\ Failed(attempts[1])
    /\ ~Failed(attempts[2])

HuggingfaceMetrics(ms) == SelectSeq(ms, LAMBDA m : m.service = "huggingface")

ImageAllFailed ==
    /\ call.kind = "image"
    /\ call.exists
    /\ Len(attempts) = 2
    /\ Failed(attempts[1])
    /\ Failed(attempts[2])

\* C2 as stated: when every provider of a media chain fails, processing ends
\* in a degraded, non-error result: process_image does not return status
\* "error" and the upload endpoint does not answer 500.
C2_AllFailIsDegradedNotError ==
    /\ (ImageAllFailed /\ pc \in {"img_exit", "img_return"}) => result.status /= "error"
    /\ (ImageAllFailed /\ pc = "idle") => http /= 500

\* C3: within one media request each provider is attempted at most once and
\* in chain order; a later provider is attempted only when the one before it
\* was unavailable (no client, so never called) or its attempt ended in failure
\* (exception or empty output); after a success nothing further is attempted.
ChainOf(kind) ==
    IF kind = "image" THEN <<"huggingface", "local_blip">>
    ELSE IF kind = "audio" THEN <<"groq", "whisper">>
    ELSE <<"groq_chat">>

IndexIn(chain, p) == CHOOSE i \in 1..Len(chain) : chain[i] = p

C4_AlwaysReturnsText ==
    result.op = "generate_response" =>
        /\ result.text /= None /\ result.text /= ""
        /\ result.status \in {"success", "placeholder", "api_error", "error"}
        /\ (groq_client = None /\ call.prompt /= None) =>
              /\ result.status = "placeholder"
              /\ result.text = PlaceholderPrefix \o call.prompt \o PlaceholderSuffix

-----------------------------------------------------------------------------
\* Storage claims, under SpecStore

CrudOps == {"get_tasks", "create_task", "update_task", "delete_task", "clear_all_tasks"}

Chosen == probes /= <<>>

\* C5: initialize_connections probes primary SQL first and Supabase only
\* after the SQL probe failed; the active backend afterwards is the first
\* one whose probe succeeded, "memory" when both failed, and never "none".
C5_FirstSuccessfulProbeWins ==
    Chosen =>
        /\ probes[1].backend = "postgresql"
        /\ Len(probes) \in {1, 2}
        /\ Len(probes) = 1 => probes[1].ok
        /\ Len(probes) = 2 => ~probes[1].ok /\ probes[2].backend = "supabase"
        /\ connection_type = IF probes[1].ok THEN "postgresql"
                             ELSE IF probes[2].ok THEN "supabase" ELSE "memory"

\* Each way an initialization can end has happened: a Supabase probe that
\* succeeded after the SQL probe failed, and two failed probes.
C5_Witness ==
    /\ ret.op = "initialize_connections"
    /\ probes = <<Probe("postgresql", FALSE), Probe("supabase", FALSE)>>
    /\ connection_type = "memory"

\* C6: once a backend has been chosen, no later initialize_connections call
\* and no later task request probes again or changes the active backend.
C6_SelectionMemoized ==
    [][Chosen => (probe_count' = probe_count /\ connection_type' = connection_type)]_vars

\* C7: while the active backend is postgresql or supabase, a CRUD operation
\* uses that backend and no in-memory store, also when its call fails.
C7_OnlyActiveBackendTouched ==
    (ret.op \in CrudOps /\ connection_type \in Backends) => touched \subseteq {connection_type}

\* C8: an operation whose call to the active backend raised does not hand
\* its caller a list, a count, a flag or a task, which is what a call that
\* returned hands back; it reports an error.
C8_BackendErrorSurfaces ==
    (ret.op \in CrudOps /\ ret.failed) => ret.kind = "error"

\* C9: when create_task has returned a task, a get_tasks that follows it
\* directly returns a list with a task of the same summary.
C9_CreateThenGetRoundTrip ==
    [][(ret.op = "create_task" /\ ret.kind = "task" /\ ret'.op = "get_tasks")
          => \E k \in 1..Len(ret'.list) : ret'.list[k].summary = ret.summary]_vars

\* C10: on one backend whose calls return, the id of a created task makes
\* the update that follows return the patched task, the delete that follows
\* the update succeed, and the get_tasks that follows the delete not contain
\* the id.
C10_IdUsableForLifecycle ==
    [][(connection_type' = connection_type /\ ~ret.failed /\ ~ret'.failed) =>
          /\ (ret.op = "create_task" /\ ret.kind = "task"
                /\ ret'.op = "update_task" /\ ret'.id = ret.task.id)
               => (ret'.kind = "task" /\ ret'.task.id = ret.task.id
                     /\ ret'.task.status \in Patches)
          /\ (ret.op = "update_task" /\ ret.kind = "task"
                /\ ret'.op = "delete_task" /\ ret'.id = ret.id)
               => ret'.flag
          /\ (ret.op = "delete_task" /\ ret.flag /\ ret'.op = "get_tasks")
               => ~HasId(ret'.list, ret.id)]_vars

\* C11: on a service whose initialization has completed, no CRUD operation
\* and no health check, whether its backend call returns or raises, changes
\* connection_type.
C11_ConnectionTypeImmutable ==
    [][(IsService /\ connection_type /= "none"
          /\ ret'.op \in CrudOps \cup {"health_check"})
         => connection_type' = connection_type]_vars

\* A health check whose query raised, and a CRUD call that raised, each with
\* Supabase still active afterwards.
C11_Witness ==
    /\ IsService
    /\ connection_type = "supabase"
    /\ ret.op \in {"health_check", "update_task"}
    /\ ret.failed

-----------------------------------------------------------------------------
\* Monitoring claims, under SpecMon

HealthRead == health.status \notin {"none", "unknown"}

RateAtLeast(h, percent) == 100 * h.successes >= percent * h.total_requests

SlowOnAverage(h) == h.total_response_time > 30 * h.total_requests

\* C12: with at least one recorded call, the status is healthy when the
\* success rate is at least 0.95, degraded when it is in [0.5, 0.95) or the
\* average latency is above 30 s, and down only when it is below 0.5.
C12_HealthClassification ==
    HealthRead =>
        /\ (RateAtLeast(health, 95) /\ ~SlowOnAverage(health)) => health.status = "healthy"
        /\ (RateAtLeast(health, 95) /\ SlowOnAverage(health))
              => health.status \in {"healthy", "degraded"}
        /\ (RateAtLeast(health, 50) /\ ~RateAtLeast(health, 95)) => health.status = "degraded"
        /\ ~RateAtLeast(health, 50) => health.status = "down"

CallsFor(service) == SelectSeq(call_log, LAMBDA m : m.service = service)

AllFailed(ms) == \A k \in 1..Len(ms) : IsErrorStatus(ms[k].status_code)

\* C13: get_service_health returns "unknown" exactly when no call has been
\* recorded for the provider, and "down" when calls have been recorded for
\* it and every one of them failed.
C13_UnknownAndDown ==
    health.service \in MonitoredServices =>
        /\ health.status = "unknown" <=> CallsFor(health.service) = <<>>
        /\ (CallsFor(health.service) /= <<>> /\ AllFailed(CallsFor(health.service)))
              => health.status = "down"

\* Health read for groq after two failed groq calls, another provider
\* having calls of its own.
C13_Witness ==
    /\ health.service = "groq"
    /\ health.status = "down"
    /\ Len(CallsFor("groq")) = 2
    /\ AllFailed(CallsFor("groq"))
    /\ CallsFor("supabase") /= <<>>

Retained(service) == SelectSeq(metrics, LAMBDA m : m.service = service)

Errors(ms) == Len(SelectSeq(ms, LAMBDA m : IsErrorStatus(m.status_code)))

RECURSIVE TotalTime(_)
TotalTime(ms) == IF ms = <<>> THEN 0 ELSE Head(ms).response_time + TotalTime(Tail(ms))

\* C14: the total_requests, error_count, success rate and status returned by
\* get_service_health(p) are those computed from the metrics of p retained
\* in the ring buffer, also after more calls than the buffer holds.
C14_HealthFromRetainedMetrics ==
    health.service \in MonitoredServices =>
        LET ms == Retained(health.service) IN
        /\ health.total_requests = Len(ms)
        /\ health.error_count = Errors(ms)
        /\ health.successes = Len(ms) - Errors(ms)
        /\ health.status = IF ms = <<>> THEN "unknown"
                           ELSE HealthStatus(Len(ms) - Errors(ms), Len(ms), TotalTime(ms))

LastOf(q, n) == SubSeq(q, Len(q) - n + 1, Len(q))

\* C15: the metric store never holds more than its capacity, and it holds
\* the most recent recorded metrics, unmodified and in recording order: a
\* metric leaves it only when a new one arrives at a full store, and then
\* the oldest one leaves.
C15_RingBuffer ==
    /\ Len(metrics) <= MetricsMaxLen
    /\ metrics = LastOf(call_log, IF Len(call_log) < MetricsMaxLen
                                  THEN Len(call_log) ELSE MetricsMaxLen)

\* More metrics recorded than the store holds, of different kinds
C15_Witness ==
    /\ Len(call_log) > MetricsMaxLen
    /\ Len(metrics) = MetricsMaxLen
    /\ call_log[1] /= call_log[2]
    /\ metrics[1] /= metrics[2]

\* C16: at every value of a provider's per-minute counter, the ceiling and
\* beyond included, a metric handed to record_metric is stored and counted:
\* the rate window rejects and skips nothing.
C16_RateLimitAdvisory ==
    [][Len(call_log') > Len(call_log) =>
          LET m == call_log'[Len(call_log')] IN
          /\ metrics' = DequeAppend(metrics, m, MetricsMaxLen)
          /\ service_stats'[m.service].total_requests
               = service_stats[m.service].total_requests + 1
          /\ rate_limits'[m.service] \in {1, rate_limits[m.service] + 1}]_vars

\* A groq call recorded with the counter already past the ceiling
C16_Witness ==
    /\ rate_limits["groq"] > RequestsPerMinute["groq"] + 1
    /\ ApproachingLimit(rate_limits, "groq")
    /\ call_log /= <<>>
    /\ metrics[Len(metrics)] = call_log[Len(call_log)]
    /\ service_stats["groq"].total_requests = Len(CallsFor("groq"))

\* C17: whatever metric record_metric is handed, the stored metrics and the
\* per-provider latency totals hold no negative latency or size.
C17_RecordClampsNegatives ==
    /\ \A k \in 1..Len(metrics) :
         /\ metrics[k].response_time >= 0
         /\ metrics[k].request_size >= 0
         /\ metrics[k].response_size >= 0
    /\ \A s \in MonitoredServices : service_stats[s].total_response_time >= 0

-----------------------------------------------------------------------------
\* Lazy singletons, under Spec

\* C18: for each lazily loaded singleton at most one load attempt is made in
\* the life of the process; later callers reuse its result.
C18_LoadedOnce == \A k \in Singletons : loads[k] <= 1

-----------------------------------------------------------------------------
\* Audio analysis without a provider, under SpecAudio

\* every provider is exhausted: none was tried (no client, no file), or each
\* one tried raised or heard nothing
Exhausted ==
    /\ returned.fn = "analyze_audio_content"
    /\ \A i \in 1..Len(returned.attempts) :
          returned.attempts[i].outcome = "raise" \/ text_in = <<>>

\* C19: when every audio provider is exhausted, analyze_audio_content returns,
\* whatever the filename, a result with a non-empty transcription text and at
\* least one follow-up task.
C19_ExhaustedGivesTextAndTask ==
    Exhausted =>
        /\ TruthyText(returned.value.transcription)
        /\ Len(returned.value.tasks) >= 1

-----------------------------------------------------------------------------
\* Task extraction, under SpecText

\* a text of length 0, or of blanks, tabs and line breaks only
IsBlank(t) == \A j \in 1..Len(t) : t[j] \in Spaces

ExtractionFunctions ==
    {"extract_tasks_from_text", "main_production.extract_tasks_from_text",
     "_extract_tasks_from_response"}

\* C20: task extraction returns the empty list for the empty text and for
\* every text made of white space only.
C20_BlankGivesNoTasks ==
    (returned.fn \in ExtractionFunctions /\ IsBlank(text_in)) => returned.value = <<>>

\* a white-space text of several atoms went through extract_tasks_from_text
C20_Witness ==
    /\ returned.fn = "extract_tasks_from_text"
    /\ Len(text_in) >= 2 /\ IsBlank(text_in)
    /\ returned.value = <<>>

\* the text of a candidate: the title of a task of extract_tasks_from_text, the
\* summary of a task of _extract_tasks_from_response
CandidateText(fn, task) ==
    IF fn = "_extract_tasks_from_response" THEN LowerText(task.summary)
    ELSE LowerText(task.title)

\* the classification by urgency and deferral words
PriorityByWords(t) ==
    IF Mentions(t, {"urgent", "asap", "critical"}) THEN "high"
    ELSE IF Mentions(t, {"later", "eventually"}) THEN "low"
    ELSE "medium"

\* a candidate taken from the text, the general task of a response set aside
Structured(task) == task.category /= "ai-generated"

\* C21: the priority of an extracted candidate is high when its text contains
\* an urgency word (urgent, asap, critical), else low when it contains a
\* deferral word (later, eventually), else medium.
C21_PriorityByKeyword ==
    returned.fn \in ExtractionFunctions =>
        \A k \in 1..Len(returned.value) :
            Structured(returned.value[k]) =>
                returned.value[k].priority
                    = PriorityByWords(CandidateText(returned.fn, returned.value[k]))

-----------------------------------------------------------------------------
\* The rate window, under SpecRate

\* C22: a call recorded at or after reset_time restarts the counter at 1 and
\* moves reset_time along the 60-second grid of the previous one; a call
\* recorded before reset_time adds one to the counter and leaves reset_time
\* as it is.
C22_FixedAlignedWindow ==
    [][Len(call_log') > Len(call_log) =>
          LET service == call_log'[Len(call_log')].service IN
          IF clock >= reset_time[service]
          THEN /\ rate_limits'[service] = 1
               /\ reset_time'[service] > clock
               /\ (reset_time'[service] - reset_time[service]) % Minute = 0
          ELSE /\ rate_limits'[service] = rate_limits[service] + 1
               /\ reset_time'[service] = reset_time[service]]_vars

-----------------------------------------------------------------------------
\* Task extraction: the candidates returned, under SpecText

\* "tasks[:10]"
TaskLimit == 10

\* C23: whatever the text, task extraction returns at most the fixed maximum
\* of candidates (10), for provider replies too, however many lines match.
C23_AtMostTenCandidates ==
    returned.fn \in ExtractionFunctions => Len(returned.value) <= TaskLimit

\* the least length of a candidate: "len(match.strip()) > 3" in
\* extract_tasks_from_text, "len(task_text) < 10" skipped in
\* _extract_tasks_from_response
MinLength(fn) == IF fn = "_extract_tasks_from_response" THEN 10 ELSE 4

\* C24: the extraction result holds no candidate shorter than the minimum
\* length and no two candidates whose titles are equal ignoring case.
C24_LongEnoughAndDistinct ==
    returned.fn \in ExtractionFunctions =>
        \A k \in 1..Len(returned.value) :
            /\ Structured(returned.value[k]) =>
                   TextLen(CandidateText(returned.fn, returned.value[k]))
                       >= MinLength(returned.fn)
            /\ \A j \in 1..(k - 1) :
                   Undot(LowerText(returned.value[j].title))
                       /= Undot(LowerText(returned.value[k].title))

\* where a candidate's text first occurs in the text, ignoring case: the index
\* of its first atom, 0 when it does not occur
FirstAt(candidate, text) ==
    With(<<Undot(candidate), Undot(LowerText(text))>>, LAMBDA a :
        With({i \in 1..(Len(a[2]) - Len(a[1]) + 1) :
                SubSeq(a[2], i, i + Len(a[1]) - 1) = a[1]}, LAMBDA at :
            IF at = {} THEN 0 ELSE Least(at)))

\* the lines of a text that are not blank
TaskLines(text) == SelectSeq(SplitLines(text), LAMBDA line : ~IsBlank(line))

\* C25: the candidates are returned in the order in which they first occur in
\* the text, and there is at most one candidate for a line.
C25_TextOrderOnePerLine ==
    returned.fn \in ExtractionFunctions =>
        /\ \A k \in 1..Len(returned.value) : \A j \in 1..(k - 1) :
               (Structured(returned.value[j]) /\ Structured(returned.value[k])) =>
                   FirstAt(CandidateText(returned.fn, returned.value[j]), text_in)
                       <= FirstAt(CandidateText(returned.fn, returned.value[k]), text_in)
        /\ (\A k \in 1..Len(returned.value) : Structured(returned.value[k])) =>
               Len(returned.value) <= Len(TaskLines(text_in))

\* a task is the general task of a text: the fixed title, and for summary the
\* stripped text, cut after 200 characters and of a final full stop, then "..."
IsGeneralTaskOf(task, text) ==
    LET body == Undot(SubSeq(task.summary, 1, Len(task.summary) - 1))
        whole == Undot(Strip(text))
    IN /\ task.title = <<"Follow AI recommendations">>
       /\ task.category = "ai-generated"
       /\ task.summary /= <<>> /\ task.summary[Len(task.summary)] = "..."
       /\ Len(body) <= Len(whole) /\ SubSeq(whole, 1, Len(body)) = body
       /\ TextLen(body) <= 200
       /\ TextLen(text) > 200 \/ TextLen(whole) - TextLen(body) <= 1

\* C26: a reply with no task indicator gives no candidate; a reply with a task
\* indicator, longer than 20 characters, in which no line gives a candidate
\* gives exactly one general candidate whose summary is the truncated text.
C26_GenericFallback ==
    returned.fn = "_extract_tasks_from_response" =>
        /\ ~has_tasks(text_in) => returned.value = <<>>
        /\ (/\ has_tasks(text_in)
            /\ LinesTasks(SplitLines(text_in)) = <<>>
            /\ TextLen(text_in) > 20) =>
               /\ Len(returned.value) = 1
               /\ IsGeneralTaskOf(returned.value[1], text_in)

\* the reply of more than 200 characters gave the general candidate, its
\* summary cut
C26_Witness ==
    /\ returned.fn = "_extract_tasks_from_response"
    /\ TextLen(text_in) > 200
    /\ Len(returned.value) = 1
    /\ returned.value[1].category = "ai-generated"
    /\ TextLen(returned.value[1].summary) < TextLen(text_in)

-----------------------------------------------------------------------------
\* The in-memory task list of the entry points, under SpecStore

\* C27: whatever tasks were created, updated, deleted and cleared, no two
\* tasks of tasks_db have the same id.
C27_TasksDbIdsDistinct ==
    \A i, j \in 1..Len(tasks_db) : i /= j => tasks_db[i].id /= tasks_db[j].id

-----------------------------------------------------------------------------
\* The metric of a tracked media call, under Spec

\* C28: when process_image returns status "error", the huggingface metric its
\* tracker recorded for the call has an error status code (>= 400).
C28_ErrorResultErrorMetric ==
    (pc = "img_return" /\ result.status = "error") =>
        /\ recorded /= <<>>
        /\ recorded[Len(recorded)].service = "huggingface"
        /\ IsErrorStatus(recorded[Len(recorded)].status_code)

-----------------------------------------------------------------------------
\* The counters of a provider, under SpecMon

CountersMatchCalls(service) ==
    With(<<service_stats[service], CallsFor(service)>>, LAMBDA sc :
        /\ sc[1].total_requests = Len(sc[2])
        /\ sc[1].total_errors = Errors(sc[2])
        /\ 0 <= sc[1].total_errors
        /\ sc[1].total_errors <= sc[1].total_requests)

\* success_rate = successes / total_requests, or 0.0 when nothing was recorded
RateWithinUnit(h) ==
    IF h.total_requests = 0 THEN h.successes = 0
    ELSE 0 <= h.successes /\ h.successes <= h.total_requests

\* C29: after any sequence of record_metric calls, for every provider
\* total_requests is the number of calls recorded for it and never decreases,
\* total_errors is the number of those with a status code >= 400 and lies
\* between 0 and total_requests, and the success rate that
\* get_service_health reports lies within [0, 1].
C29_CountersConsistent ==
    /\ [](\A s \in MonitoredServices : CountersMatchCalls(s))
    /\ [](health.service \in MonitoredServices => RateWithinUnit(health))
    /\ [][\A s \in MonitoredServices :
             service_stats'[s].total_requests >= service_stats[s].total_requests]_vars

\* Calls of two providers interleaved, groq with one failure among three
\* calls, and the health of groq read afterwards.
C29_Witness ==
    /\ Len(CallsFor("groq")) = 3
    /\ Errors(CallsFor("groq")) = 1
    /\ CallsFor("supabase") /= <<>>
    /\ call_log[1].service = "groq" /\ call_log[2].service = "supabase"
    /\ health.service = "groq"
    /\ health.successes = 2 /\ health.total_requests = 3

-----------------------------------------------------------------------------
\* The dashboard, under SpecMon

DashboardRead == dashboard.overall_health /= "none"

NotHealthy(d) == {s \in MonitoredServices : d.services[s].status /= "healthy"}

\* C30: the dashboard's overall_health is 'healthy' exactly when groq,
\* huggingface and supabase all have status 'healthy', 'degraded' exactly
\* when one of them is not healthy and 'down' exactly when two or more are
\* not healthy; a service with no recorded call, whose status is
\* 'unknown', counts as not healthy. The statuses are those
\* get_service_health gives for the counters at the time of the call.
C30_OverallHealth ==
    DashboardRead =>
        /\ DOMAIN dashboard.services = MonitoredServices
        /\ \A s \in MonitoredServices :
              /\ dashboard.services[s] = GetServiceHealth(service_stats, s)
              /\ (CallsFor(s) = <<>>) => s \in NotHealthy(dashboard)
        /\ dashboard.overall_health = "healthy" <=> NotHealthy(dashboard) = {}
        /\ dashboard.overall_health = "degraded" <=> Cardinality(NotHealthy(dashboard)) = 1
        /\ dashboard.overall_health = "down" <=> Cardinality(NotHealthy(dashboard)) >= 2

\* The dashboard read when groq and huggingface have successful calls only
\* and supabase has none: one service, the unknown one, is not healthy.
C30_Witness ==
    /\ DashboardRead
    /\ dashboard.overall_health = "degraded"
    /\ NotHealthy(dashboard) = {"supabase"}
    /\ dashboard.services["supabase"].status = "unknown"
    /\ CallsFor("groq") /= <<>> /\ CallsFor("huggingface") /= <<>>


=============================================================================
